---- MODULE Spec2Model ----
(***************************************************************************)
(* Car-wash job ingestion, credit resolution, daily aggregates, reports   *)
(* and the directory of washers and service items                         *)
(* (controllers/recordController.js, controllers/paymentController.js,    *)
(* controllers/helperController.js).                                      *)
(*                                                                         *)
(* Strings are sequences of one-character strings, so that toLowerCase()   *)
(* and includes() are computed and not assumed.  Money is an integer;      *)
(* the shares of calculatePaymentSplit are exact rationals, held as        *)
(* integer counts of 1/SplitUnit of the currency unit.                     *)
(***************************************************************************)
EXTENDS Integers, Sequences, FiniteSets, TLC

\* ------------------------------------------------------------------------
\* Bounds of the model
\* ------------------------------------------------------------------------
NumReqs == 2
MaxJobs == 2
MaxLines == 2
MaxDay == 2
MaxCustomPrice == 1
MaxSplitPrice == 12
MaxAdminOps == 1

\* washer writes in flight at a time
NumWasherReqs == 2

\* ------------------------------------------------------------------------
\* Strings
\* ------------------------------------------------------------------------
UpperCase ==
  << "A", "B", "C", "D", "E", "F", "G", "H", "I", "J", "K", "L", "M",
     "N", "O", "P", "Q", "R", "S", "T", "U", "V", "W", "X", "Y", "Z" >>

LowerCase ==
  << "a", "b", "c", "d", "e", "f", "g", "h", "i", "j", "k", "l", "m",
     "n", "o", "p", "q", "r", "s", "t", "u", "v", "w", "x", "y", "z" >>

LowerChar(c) ==
  IF \E i \in 1..Len(UpperCase) : UpperCase[i] = c
    THEN LowerCase[CHOOSE i \in 1..Len(UpperCase) : UpperCase[i] = c]
    ELSE c

\* String.prototype.toLowerCase
toLowerCase(s) == [i \in 1..Len(s) |-> LowerChar(s[i])]

\* String.prototype.includes
includes(s, sub) ==
  \E i \in 1..(Len(s) - Len(sub) + 1) : SubSeq(s, i, i + Len(sub) - 1) = sub

\* the literals of the source
specialItems ==
  << << "e", "n", "g", "i", "n", "e" >>,
     << "r", "a", "d", "i", "a", "t", "o", "r" >>,
     << "c", "o", "n", "d", "e", "n", "s", "e", "r" >> >>

rugKeyword == << "r", "u", "g" >>

IdowuLiteral == << "I", "d", "o", "w", "u" >>

cashLiteral == << "c", "a", "s", "h" >>

transferLiteral == << "t", "r", "a", "n", "s", "f", "e", "r" >>

\* names used by the directory and by the submissions
SamName == << "S", "a", "m" >>

AdeName == << "A", "d", "e" >>

IdowuLowerName == << "i", "d", "o", "w", "u" >>

EngineWashName == << "E", "n", "g", "i", "n", "e", " ", "W", "a", "s", "h" >>

CarRugName == << "C", "a", "r", " ", "R", "u", "g" >>

FullWashName == << "F", "u", "l", "l", " ", "W", "a", "s", "h" >>

WaxName == << "W", "a", "x" >>

cardName == << "c", "a", "r", "d" >>

\* a property of Object.prototype
constructorName == << "c", "o", "n", "s", "t", "r", "u", "c", "t", "o", "r" >>

BolaName == << "B", "o", "l", "a" >>

IdowuUpperName == << "I", "D", "O", "W", "U" >>

BranchAName == << "B", "r", "a", "n", "c", "h", " ", "A" >>

BranchBName == << "B", "r", "a", "n", "c", "h", " ", "B" >>

cashUpperName == << "C", "A", "S", "H" >>

\* service item names given to the split policy
EngineRugName == << "E", "N", "G", "I", "N", "E", " ", "r", "u", "g" >>

RadiatorFlushName ==
  << "R", "a", "d", "i", "a", "t", "o", "r", " ", "F", "l", "u", "s", "h" >>

AcCondenserName == << "A", "C", " ", "c", "o", "n", "d", "e", "n", "s", "e", "r" >>

RugUpperName == << "R", "U", "G" >>

EngineerName == << "e", "n", "g", "i", "n", "e", "e", "r", "s" >>

\* ------------------------------------------------------------------------
\* Split policy
\* ------------------------------------------------------------------------
\* shares are counted in 1/SplitUnit of the currency unit, so that price / 3,
\* price * 0.5, price * 0.6 and price * 0.4 are exact
SplitUnit == 30

rugKeywords == << rugKeyword >>

isSpecialItemOrRug(serviceItemName) ==
  \E k \in 1..Len(specialItems \o rugKeywords) :
    includes(toLowerCase(serviceItemName), (specialItems \o rugKeywords)[k])

isSpecialItem(serviceItemName) ==
  \E k \in 1..Len(specialItems) :
    includes(toLowerCase(serviceItemName), specialItems[k])

isRug(serviceItemName) == includes(toLowerCase(serviceItemName), rugKeyword)

calculatePaymentSplitSwapped(serviceItemName, price) ==
  IF isRug(serviceItemName)
    THEN [companyShare |-> (price * SplitUnit) \div 2,
          washerShare |-> (price * SplitUnit) \div 2]
    ELSE IF isSpecialItem(serviceItemName)
      THEN [companyShare |-> ((price * SplitUnit) \div 3) * 2,
            washerShare |-> (price * SplitUnit) \div 3]
      ELSE [companyShare |-> ((price * SplitUnit) \div 10) * 6,
            washerShare |-> ((price * SplitUnit) \div 10) * 4]

calculatePaymentSplit(serviceItemName, price) ==
  IF isSpecialItem(serviceItemName)
    THEN [companyShare |-> ((price * SplitUnit) \div 3) * 2,
          washerShare |-> (price * SplitUnit) \div 3]
    ELSE IF isRug(serviceItemName)
      THEN [companyShare |-> (price * SplitUnit) \div 2,
            washerShare |-> (price * SplitUnit) \div 2]
      ELSE [companyShare |-> ((price * SplitUnit) \div 10) * 6,
            washerShare |-> ((price * SplitUnit) \div 10) * 4]

\* ------------------------------------------------------------------------
\* State
\* ------------------------------------------------------------------------
BranchIds == {"branch_a", "branch_b"}

Reqs == 1..NumReqs

VARIABLES
  washers,              \* Washer table: id -> [name, branchId, isActive]
  serviceItems,         \* ServiceItem table: id -> [name, price, isActive]
  now,                  \* the wall clock, in days
  nextId,               \* next CarWash id
  carWashes,            \* committed CarWash rows, with washed items and links
  dailySummary,         \* committed DailySummary rows, by <<washerId, date, branchId>>
  companyDailySummary,  \* committed CompanyDailySummary rows, by <<branchId, date>>
  reqs,                 \* the requests being handled, with their locals
  splitIn,              \* input of the split policy under test
  splitOut,             \* its output: << >> before the call, << shares >> after
  branches,             \* Branch table: id -> [name, isActive]
  adminOps,             \* number of directory operations handled so far
  httpReq,              \* the HTTP request handed to the application
  httpRes,              \* << >> before it is dispatched, << outcome >> after
  washerReqs,           \* washer writes between their name check and their write
  report,               \* the company daily summary between its two queries
  adminRes              \* the last response of a directory operation

vars ==
  << washers, serviceItems, now, nextId, carWashes, dailySummary,
     companyDailySummary, reqs, splitIn, splitOut, branches, adminOps, adminRes,
     httpReq, httpRes, washerReqs, report >>

dirVars == << washers, serviceItems >>

dbVars == << carWashes, dailySummary, companyDailySummary >>

splitVars == << splitIn, splitOut >>

adminVars == << branches, adminOps, adminRes >>

httpVars == << httpReq, httpRes >>

flightVars == << washerReqs, report >>

\* branch_a has an active washer whose name matches 'Idowu' only when case is
\* ignored; the Idowu of branch_b has been deactivated
InitWashers ==
  [w \in {"w1", "w2", "w3", "w4"} |->
     CASE w = "w1" -> [name |-> IdowuLowerName, branchId |-> "branch_a",
                       isActive |-> TRUE]
       [] w = "w2" -> [name |-> SamName, branchId |-> "branch_a", isActive |-> TRUE]
       [] w = "w3" -> [name |-> SamName, branchId |-> "branch_b", isActive |-> TRUE]
       [] w = "w4" -> [name |-> IdowuLiteral, branchId |-> "branch_b",
                       isActive |-> FALSE]]

InitServiceItems ==
  [s \in {"s1", "s2", "s3", "s4"} |->
     CASE s = "s1" -> [name |-> EngineWashName, price |-> 300, isActive |-> TRUE]
       [] s = "s2" -> [name |-> CarRugName, price |-> 0, isActive |-> TRUE]
       [] s = "s3" -> [name |-> FullWashName, price |-> 50, isActive |-> TRUE]
       [] s = "s4" -> [name |-> WaxName, price |-> 20, isActive |-> FALSE]]

\* the branches of the seed
InitBranches ==
  [b \in BranchIds |->
     CASE b = "branch_a" -> [name |-> BranchAName, isActive |-> TRUE]
       [] b = "branch_b" -> [name |-> BranchBName, isActive |-> TRUE]]

NoResponse == [status |-> 0, message |-> "", names |-> {}, data |-> 0]

NoAdminResponse == [op |-> "", status |-> 0, branchId |-> ""]

\* no report is being computed
NoReport == << >>

NoBody == [paymentMethod |-> << >>, items |-> << >>]

IdleReq ==
  [pc |-> "idle", branchId |-> "", body |-> NoBody, itemsWithIds |-> << >>,
   allInvolvedWasherIds |-> << >>, carWash |-> << >>, today |-> 0,
   washerCarInvolvement |-> {}, idx |-> 0, dailyUpserts |-> << >>,
   companyUpserts |-> << >>, res |-> NoResponse]

NoSplit == [name |-> << >>, price |-> 0, category |-> ""]

\* ------------------------------------------------------------------------
\* Submissions
\* ------------------------------------------------------------------------
\* customPrice: << >> when the field is absent, << p >> when it is p
CustomPrices == {<< >>} \cup {<< p >> : p \in 0..MaxCustomPrice}

Line(w, s, c) == [washerName |-> w, serviceItemName |-> s, customPrice |-> c]

\* the lines a submission may start with
LineInputs ==
  { Line(SamName, EngineWashName, << >>),
    Line(SamName, FullWashName, << >>),
    Line(IdowuLowerName, FullWashName, << >>),
    Line(AdeName, FullWashName, << >>),
    Line(SamName, WaxName, << >>),
    Line(AdeName, CarRugName, << >>) }
  \cup { Line(SamName, CarRugName, c) : c \in CustomPrices }
  \cup { Line(SamName, FullWashName, c) : c \in CustomPrices \ {<< >>, << 0 >>} }

\* the lines that may follow
MoreLineInputs ==
  { Line(SamName, EngineWashName, << >>),
    Line(SamName, FullWashName, << >>),
    Line(SamName, WaxName, << >>) }

RECURSIVE ItemsUpTo(_)
ItemsUpTo(n) ==
  IF n = 0 THEN {<< >>}
  ELSE IF n = 1 THEN {<< >>} \cup {<< x >> : x \in LineInputs}
  ELSE LET shorter == ItemsUpTo(n - 1)
       IN shorter \cup {Append(q, x) : q \in {t \in shorter : Len(t) = n - 1},
                                       x \in MoreLineInputs}

\* the submissions of the concurrent runs: lines naming Sam or Ade, no payment
\* method
ConcurrentLineInputs ==
  { Line(SamName, EngineWashName, << >>),
    Line(SamName, FullWashName, << >>),
    Line(AdeName, FullWashName, << >>) }

ConcurrentBodies ==
  [paymentMethod : {<< >>},
   items : {q \in ItemsUpTo(MaxLines) :
              Len(q) > 0 => q[1] \in ConcurrentLineInputs}]

\* the payment method is left out, except on one submission that is sent with a
\* valid and with an invalid one
Bodies ==
  [paymentMethod : {<< >>}, items : ItemsUpTo(MaxLines)]
  \cup [paymentMethod : {cashLiteral, cardName},
        items : {<< Line(SamName, FullWashName, << >>) >>}]

\* ------------------------------------------------------------------------
\* createCarWashRecord: validation and credit resolution
\* ------------------------------------------------------------------------
Range(q) == {q[i] : i \in 1..Len(q)}

RECURSIVE SumPrices(_)
SumPrices(q) == IF q = << >> THEN 0 ELSE Head(q).price + SumPrices(Tail(q))

\* [...new Set(xs)]: the distinct elements, in order of first appearance
RECURSIVE Distinct(_)
Distinct(q) ==
  IF q = << >> THEN << >>
  ELSE LET front == Distinct(SubSeq(q, 1, Len(q) - 1))
           last == q[Len(q)]
       IN IF last \in Range(front) THEN front ELSE Append(front, last)

washerNamesOf(items) == {items[i].washerName : i \in 1..Len(items)}

serviceItemNamesOf(items) == {items[i].serviceItemName : i \in 1..Len(items)}

paymentMethodInvalid(paymentMethod) ==
  /\ paymentMethod # << >>
  /\ toLowerCase(paymentMethod) \notin {cashLiteral, transferLiteral}

findWashersAnyBranch(branchId, washerNames) ==
  {w \in DOMAIN washers : washers[w].name \in washerNames /\ washers[w].isActive}

\* prisma.washer.findMany({ name in washerNames, isActive, branchId })
findWashers(branchId, washerNames) ==
  {w \in DOMAIN washers :
     /\ washers[w].name \in washerNames
     /\ washers[w].isActive
     /\ washers[w].branchId = branchId}

findServiceItemsAnyState(serviceItemNames) ==
  {s \in DOMAIN serviceItems : serviceItems[s].name \in serviceItemNames}

\* prisma.serviceItem.findMany({ name in serviceItemNames, isActive })
findServiceItems(serviceItemNames) ==
  {s \in DOMAIN serviceItems :
     /\ serviceItems[s].name \in serviceItemNames
     /\ serviceItems[s].isActive}

findIdowuWasherAnyState(branchId) ==
  {w \in DOMAIN washers :
     /\ toLowerCase(washers[w].name) = toLowerCase(IdowuLiteral)
     /\ washers[w].branchId = branchId}

\* prisma.washer.findFirst({ name equals 'Idowu' insensitive, branchId, isActive }):
\* the rows findFirst may return
findIdowuWasher(branchId) ==
  {w \in DOMAIN washers :
     /\ toLowerCase(washers[w].name) = toLowerCase(IdowuLiteral)
     /\ washers[w].branchId = branchId
     /\ washers[w].isActive}

\* the value of IdowuWasher: << >> for null, << w >> for a row
IdowuWasherValues(branchId) ==
  IF findIdowuWasher(branchId) = {} THEN {<< >>}
  ELSE {<< w >> : w \in findIdowuWasher(branchId)}

\* Object.fromEntries(rows.map(r => [r.name, r.id])): one id per name found
NameMaps(table, found) ==
  {m \in [{table[x].name : x \in found} -> found] :
     \A n \in DOMAIN m : table[m[n]].name = n}

hasSpecialItems(items) ==
  \E i \in 1..Len(items) : isSpecialItem(items[i].serviceItemName)

\* the names for which an object literal has an inherited property:
\* washerMap[n] and serviceItemMap[n] are then truthy though no row has the name
ObjectPrototypeKeys == {constructorName}

\* what nameMap[n] reads when n is an inherited property: not a row id
InheritedValue == "Object"

\* nameMap[n]: << >> for undefined
mapGet(nameMap, n) ==
  IF n \in DOMAIN nameMap THEN << nameMap[n] >>
  ELSE IF n \in ObjectPrototypeKeys THEN << InheritedValue >>
  ELSE << >>

\* names.filter(name => !nameMap[name])
missingNames(names, nameMap) == {n \in names : mapGet(nameMap, n) = << >>}

\* serviceItemMap[name].price: << >> for undefined
serviceItemDataPrice(serviceItemMap, name) ==
  IF name \in DOMAIN serviceItemMap
    THEN << serviceItems[serviceItemMap[name]].price >>
    ELSE << >>

\* !item.customPrice || item.customPrice <= 0
customPriceMissingAbsentOnly(customPrice) == customPrice = << >>

customPriceMissing(customPrice) ==
  \/ customPrice = << >>
  \/ customPrice[1] = 0
  \/ customPrice[1] <= 0

itemsWithMissingPrices(items, serviceItemMap) ==
  {items[i].serviceItemName : i \in
     {j \in 1..Len(items) :
        /\ serviceItemDataPrice(serviceItemMap, items[j].serviceItemName) = << 0 >>
        /\ customPriceMissing(items[j].customPrice)}}

\* serviceItemData.price === 0 && item.customPrice ? parseFloat(item.customPrice)
\*                                                  : serviceItemData.price
finalPriceCustomFirst(listPrice, customPrice) ==
  IF customPrice # << >> /\ customPrice[1] # 0 THEN customPrice[1] ELSE listPrice

finalPrice(listPrice, customPrice) ==
  IF listPrice = 0 /\ customPrice # << >> /\ customPrice[1] # 0
    THEN customPrice[1]
    ELSE listPrice

actualWasherId(item, IdowuWasher, washerMap) ==
  IF isSpecialItem(item.serviceItemName)
    THEN IdowuWasher[1]
    ELSE washerMap[item.washerName]

itemsWithIdsOf(items, IdowuWasher, washerMap, serviceItemMap) ==
  [i \in 1..Len(items) |->
     [washerId |-> actualWasherId(items[i], IdowuWasher, washerMap),
      serviceItemId |-> serviceItemMap[items[i].serviceItemName],
      price |-> finalPrice(serviceItems[serviceItemMap[items[i].serviceItemName]].price,
                           items[i].customPrice),
      originalWasherName |-> items[i].washerName,
      actualWasherName |-> IF isSpecialItem(items[i].serviceItemName)
                             THEN IdowuLiteral
                             ELSE items[i].washerName]]

washedItemsOf(itemsWithIds) ==
  [i \in 1..Len(itemsWithIds) |->
     [washerId |-> itemsWithIds[i].washerId,
      serviceItemId |-> itemsWithIds[i].serviceItemId,
      price |-> itemsWithIds[i].price]]

\* the washers the lines name are linked, whoever is credited
allInvolvedWasherIdsNamed(itemsWithIds) ==
  Distinct([i \in 1..Len(itemsWithIds) |->
              CHOOSE w \in DOMAIN washers :
                \/ /\ washers[w].name = itemsWithIds[i].originalWasherName
                   /\ washers[w].isActive
                   /\ \E x \in DOMAIN washers :
                        /\ x = itemsWithIds[i].washerId
                        /\ washers[x].branchId = washers[w].branchId
                \/ /\ w = itemsWithIds[i].washerId
                   /\ ~\E x \in DOMAIN washers :
                        /\ washers[x].name = itemsWithIds[i].originalWasherName
                        /\ washers[x].isActive
                        /\ washers[x].branchId = washers[w].branchId])

allInvolvedWasherIdsOf(itemsWithIds) ==
  Distinct([i \in 1..Len(itemsWithIds) |-> itemsWithIds[i].washerId])

\* a washerId or serviceItemId read from an inherited property is no row id:
\* tx.carWash.create rejects the data
createDataInvalid(items, washerMap, serviceItemMap) ==
  \E i \in 1..Len(items) :
    \/ items[i].serviceItemName \notin DOMAIN serviceItemMap
    \/ /\ ~isSpecialItem(items[i].serviceItemName)
       /\ items[i].washerName \notin DOMAIN washerMap

RECURSIVE SumListPrices(_)
SumListPrices(q) ==
  IF q = << >> THEN 0
  ELSE serviceItems[Head(q).serviceItemId].price + SumListPrices(Tail(q))

\* the total taken from the price list, custom prices ignored
newCarWashListTotal(id, branchId, body, itemsWithIds) ==
  [id |-> id,
   branchId |-> branchId,
   washDate |-> now,
   paymentMethod |-> body.paymentMethod,
   totalAmount |-> SumListPrices(itemsWithIds),
   washedItems |-> washedItemsOf(itemsWithIds),
   washers |-> Range(allInvolvedWasherIdsOf(itemsWithIds))]

\* the row built by tx.carWash.create, with its nested washedItems and washers
newCarWash(id, branchId, body, itemsWithIds) ==
  [id |-> id,
   branchId |-> branchId,
   washDate |-> now,
   paymentMethod |-> body.paymentMethod,
   totalAmount |-> SumPrices(itemsWithIds),
   washedItems |-> washedItemsOf(itemsWithIds),
   washers |-> Range(allInvolvedWasherIdsOf(itemsWithIds))]

\* ------------------------------------------------------------------------
\* createCarWashRecord: the handler
\* ------------------------------------------------------------------------
Response(status, message, names, data) ==
  [status |-> status, message |-> message, names |-> names, data |-> data]

Responded(branchId, body, res) ==
  [IdleReq EXCEPT !.pc = "responded", !.branchId = branchId, !.body = body,
                  !.res = res]

\* protect: the caller's branch is active, or the request is answered 401 before
\* any handler runs
protect(branchId) == branches[branchId].isActive

\* a return res.status(400) before the transaction: nothing is written
Reject(r, branchId, body, message, names) ==
  /\ reqs' = [reqs EXCEPT ![r] = Responded(branchId, body,
                                          Response(400, message, names, 0))]
  /\ UNCHANGED << nextId, dbVars >>

\* tx.carWash.create throws on its first statement: the transaction is rolled
\* back with nothing written, and the catch sends 500
FailCreate(r, branchId, body) ==
  /\ reqs' = [reqs EXCEPT ![r] = Responded(branchId, body,
                                          Response(500, "failed", {}, 0))]
  /\ UNCHANGED << nextId, dbVars >>

\* prisma.$transaction entered and tx.carWash.create done: the row and its
\* nested rows are written inside the transaction, not yet committed
BeginTransaction(r, branchId, body, itemsWithIds) ==
  /\ reqs' = [reqs EXCEPT ![r] =
       [IdleReq EXCEPT !.pc = "tx_involvement",
                       !.branchId = branchId,
                       !.body = body,
                       !.itemsWithIds = itemsWithIds,
                       !.allInvolvedWasherIds = allInvolvedWasherIdsOf(itemsWithIds),
                       !.carWash = << newCarWash(nextId, branchId, body, itemsWithIds) >>]]
  /\ nextId' = nextId + 1
  /\ UNCHANGED dbVars

CreateCarWashRecord(r, branchId, body) ==
  /\ protect(branchId)
  /\ reqs[r].pc = "idle"
  /\ \A q \in 1..(r - 1) : reqs[q].pc # "idle"
  /\ nextId <= MaxJobs
  /\ LET items == body.items
         washerNames == washerNamesOf(items)
         serviceItemNames == serviceItemNamesOf(items)
         foundWashers == findWashers(branchId, washerNames)
         foundServiceItems == findServiceItems(serviceItemNames)
     IN IF Len(items) = 0
          THEN Reject(r, branchId, body, "items", {})
          ELSE IF paymentMethodInvalid(body.paymentMethod)
            THEN Reject(r, branchId, body, "paymentMethod", {})
            ELSE \E IdowuWasher \in IdowuWasherValues(branchId),
                    washerMap \in NameMaps(washers, foundWashers),
                    serviceItemMap \in NameMaps(serviceItems, foundServiceItems) :
                   IF hasSpecialItems(items) /\ IdowuWasher = << >>
                     THEN Reject(r, branchId, body, "idowu", {})
                     ELSE IF missingNames(washerNames, washerMap) # {}
                       THEN Reject(r, branchId, body, "washers",
                                   missingNames(washerNames, washerMap))
                       ELSE IF missingNames(serviceItemNames, serviceItemMap) # {}
                         THEN Reject(r, branchId, body, "serviceItems",
                                     missingNames(serviceItemNames, serviceItemMap))
                         ELSE IF itemsWithMissingPrices(items, serviceItemMap) # {}
                           THEN Reject(r, branchId, body, "customPrice",
                                       itemsWithMissingPrices(items, serviceItemMap))
                           ELSE IF createDataInvalid(items, washerMap, serviceItemMap)
                             THEN FailCreate(r, branchId, body)
                             ELSE BeginTransaction(r, branchId, body,
                                    itemsWithIdsOf(items, IdowuWasher, washerMap,
                                                   serviceItemMap))
  /\ UNCHANGED << dirVars, now, splitVars, adminVars, httpVars, flightVars >>

\* the rows a statement of request r's transaction sees: the committed rows and
\* the transaction's own
visibleCarWashes(r) == carWashes \cup Range(reqs[r].carWash)

\* tx.carWash.findMany({ branchId, washDate >= today, washers some id = washerId })
existingCarWashes(r, today, washerId) ==
  {cw.id : cw \in
     {c \in visibleCarWashes(r) :
        /\ c.branchId = reqs[r].branchId
        /\ c.washDate >= today
        /\ washerId \in c.washers}}

\* the washers w with washerCarInvolvement[w] true
washerCarInvolvementOf(r, today) ==
  {w \in Range(reqs[r].allInvolvedWasherIds) :
     reqs[r].carWash[1].id \notin existingCarWashes(r, today, w)}

\* washerItemCounts[washerId] || 0
washerItemCount(itemsWithIds, washerId) ==
  Cardinality({i \in 1..Len(itemsWithIds) : itemsWithIds[i].washerId = washerId})

\* lines 222-245: today is read from the clock, then one query per washer; only
\* the presence of the transaction's own row in each result is used
TxInvolvement(r) ==
  /\ reqs[r].pc = "tx_involvement"
  /\ reqs' = [reqs EXCEPT ![r].pc = "tx_daily",
                          ![r].today = now,
                          ![r].washerCarInvolvement = washerCarInvolvementOf(r, now),
                          ![r].idx = 1]
  /\ UNCHANGED << dirVars, now, nextId, dbVars, splitVars, adminVars, httpVars, flightVars >>

\* a row written by another transaction that has not ended is locked
dailyRowLocked(r, key) ==
  \E q \in Reqs \ {r} :
    \E i \in 1..Len(reqs[q].dailyUpserts) : reqs[q].dailyUpserts[i].key = key

companyRowLocked(r, key) ==
  \E q \in Reqs \ {r} :
    \E i \in 1..Len(reqs[q].companyUpserts) : reqs[q].companyUpserts[i].key = key

\* one iteration of the loop of tx.dailySummary.upsert
TxUpsertDaily(r) ==
  /\ reqs[r].pc = "tx_daily"
  /\ LET washerId == reqs[r].allInvolvedWasherIds[reqs[r].idx]
         key == << washerId, reqs[r].today, reqs[r].branchId >>
         write == [key |-> key,
                   totalCarsWashed |->
                     IF washerId \in reqs[r].washerCarInvolvement THEN 1 ELSE 0,
                   totalItemsWashed |-> washerItemCount(reqs[r].itemsWithIds, washerId)]
     IN /\ ~dailyRowLocked(r, key)
        /\ reqs' = [reqs EXCEPT
             ![r].dailyUpserts = Append(@, write),
             ![r].idx = @ + 1,
             ![r].pc = IF reqs[r].idx = Len(reqs[r].allInvolvedWasherIds)
                         THEN "tx_company" ELSE "tx_daily"]
  /\ UNCHANGED << dirVars, now, nextId, dbVars, splitVars, adminVars, httpVars, flightVars >>

\* tx.companyDailySummary.upsert
TxUpsertCompany(r) ==
  /\ reqs[r].pc = "tx_company"
  /\ LET key == << reqs[r].branchId, reqs[r].today >>
         write == [key |-> key,
                   totalCarsWashed |-> 1,
                   totalItemsWashed |-> Len(reqs[r].itemsWithIds)]
     IN /\ ~companyRowLocked(r, key)
        /\ reqs' = [reqs EXCEPT ![r].companyUpserts = Append(@, write),
                                ![r].pc = "tx_commit"]
  /\ UNCHANGED << dirVars, now, nextId, dbVars, splitVars, adminVars, httpVars, flightVars >>

upsertRowOverwriting(table, write) ==
  (write.key :> [totalCarsWashed |-> write.totalCarsWashed,
                 totalItemsWashed |-> write.totalItemsWashed]) @@ table

\* upsert: create the row when absent, increment it in place otherwise
upsertRow(table, write) ==
  IF write.key \in DOMAIN table
    THEN [table EXCEPT ![write.key] =
            [totalCarsWashed |-> @.totalCarsWashed + write.totalCarsWashed,
             totalItemsWashed |-> @.totalItemsWashed + write.totalItemsWashed]]
    ELSE (write.key :> [totalCarsWashed |-> write.totalCarsWashed,
                        totalItemsWashed |-> write.totalItemsWashed]) @@ table

RECURSIVE upsertRows(_, _)
upsertRows(table, writes) ==
  IF writes = << >> THEN table
  ELSE upsertRows(upsertRow(table, Head(writes)), Tail(writes))

committedDbReplacingJobs(r) ==
  << Range(reqs[r].carWash),
     upsertRows(dailySummary, reqs[r].dailyUpserts),
     upsertRows(companyDailySummary, reqs[r].companyUpserts) >>

\* what the store holds once request r's transaction has committed
committedDb(r) ==
  << carWashes \cup Range(reqs[r].carWash),
     upsertRows(dailySummary, reqs[r].dailyUpserts),
     upsertRows(companyDailySummary, reqs[r].companyUpserts) >>

rolledBackDbKeepsWrites(r) == committedDb(r)

\* what the store holds once request r's transaction has been rolled back
rolledBackDb(r) == << carWashes, dailySummary, companyDailySummary >>

\* the callback returns: the transaction commits and 201 is sent
TxCommit(r) ==
  /\ reqs[r].pc = "tx_commit"
  /\ carWashes' = committedDb(r)[1]
  /\ dailySummary' = committedDb(r)[2]
  /\ companyDailySummary' = committedDb(r)[3]
  /\ reqs' = [reqs EXCEPT ![r] =
       Responded(reqs[r].branchId, reqs[r].body,
                 Response(201, "created", {}, reqs[r].carWash[1].id))]
  /\ UNCHANGED << dirVars, now, nextId, splitVars, adminVars, httpVars, flightVars >>

\* a statement of the transaction throws: rollback, and the catch sends 500
TxFail(r) ==
  /\ reqs[r].pc \in {"tx_involvement", "tx_daily", "tx_company", "tx_commit"}
  /\ carWashes' = rolledBackDb(r)[1]
  /\ dailySummary' = rolledBackDb(r)[2]
  /\ companyDailySummary' = rolledBackDb(r)[3]
  /\ reqs' = [reqs EXCEPT ![r] =
       Responded(reqs[r].branchId, reqs[r].body, Response(500, "failed", {}, 0))]
  /\ UNCHANGED << dirVars, now, nextId, splitVars, adminVars, httpVars, flightVars >>

\* the response has been delivered
Finish(r) ==
  /\ reqs[r].pc = "responded"
  /\ reqs' = [reqs EXCEPT ![r] = IdleReq]
  /\ UNCHANGED << dirVars, now, nextId, dbVars, splitVars, adminVars, httpVars, flightVars >>

\* midnight passes
Tick ==
  /\ now < MaxDay
  /\ now' = now + 1
  /\ UNCHANGED << dirVars, nextId, dbVars, reqs, splitVars, adminVars, httpVars, flightVars >>

\* ------------------------------------------------------------------------
\* helperController: washers and service items
\* ------------------------------------------------------------------------
\* the ids given to created rows, in order of creation
NewWasherIds == << "w5", "w6", "w7", "w8" >>

NewServiceItemIds == << "s5", "s6", "s7", "s8" >>

newWasherId ==
  NewWasherIds[Cardinality(DOMAIN washers) - Cardinality(DOMAIN InitWashers) + 1]

newServiceItemId ==
  NewServiceItemIds[Cardinality(DOMAIN serviceItems)
                      - Cardinality(DOMAIN InitServiceItems) + 1]

\* a directory operation is answered: its status is recorded, with the branch of
\* the caller when the operation reads it, and the operation counted
AdminAnswer(op, status, branchId) ==
  /\ adminOps' = adminOps + 1
  /\ adminRes' = [op |-> op, status |-> status, branchId |-> branchId]

findWasherAnyBranch(id, branchId) == {w \in DOMAIN washers : w = id}

\* prisma.washer.findFirst({ where: { id, branchId } }): the rows found
findWasherInBranch(id, branchId) ==
  {w \in DOMAIN washers : w = id /\ washers[w].branchId = branchId}

\* prisma.washer.findFirst({ where: { name, branchId, id: { not: id } } })
findWasherByName(name, branchId, notId) ==
  {w \in DOMAIN washers :
     /\ washers[w].name = name
     /\ washers[w].branchId = branchId
     /\ w # notId}

\* createWasher: name is the submitted name, << >> when absent or empty
CreateWasher(branchId, name) ==
  /\ protect(branchId)
  /\ adminOps < MaxAdminOps
  /\ Cardinality(DOMAIN washers) - Cardinality(DOMAIN InitWashers) < Len(NewWasherIds)
  /\ IF name = << >>
       THEN AdminAnswer("createWasher", 400, branchId) /\ UNCHANGED washers
       ELSE IF findWasherByName(name, branchId, "") # {}
         THEN AdminAnswer("createWasher", 400, branchId) /\ UNCHANGED washers
         ELSE /\ washers' = (newWasherId :> [name |-> name, branchId |-> branchId,
                                             isActive |-> TRUE]) @@ washers
              /\ AdminAnswer("createWasher", 201, branchId)
  /\ UNCHANGED << serviceItems, now, nextId, dbVars, reqs, splitVars, branches, httpVars, flightVars >>

\* the row after prisma.washer.update with data { name?, isActive? }: a field of
\* the patch is << >> when absent (an empty name is dropped as an absent one is)
patchedWasher(row, patch) ==
  [name |-> IF patch.name # << >> THEN patch.name ELSE row.name,
   branchId |-> row.branchId,
   isActive |-> IF patch.isActive # << >> THEN patch.isActive[1] ELSE row.isActive]

updateWasher(branchId, id, patch) ==
  IF findWasherInBranch(id, branchId) = {}
    THEN AdminAnswer("updateWasher", 404, branchId) /\ UNCHANGED washers
    ELSE IF /\ patch.name # << >>
            /\ patch.name # washers[id].name
            /\ findWasherByName(patch.name, branchId, id) # {}
      THEN AdminAnswer("updateWasher", 400, branchId) /\ UNCHANGED washers
      ELSE /\ washers' = [washers EXCEPT ![id] = patchedWasher(@, patch)]
           /\ AdminAnswer("updateWasher", 200, branchId)

UpdateWasher(branchId, id, patch) ==
  /\ protect(branchId)
  /\ adminOps < MaxAdminOps
  /\ updateWasher(branchId, id, patch)
  /\ UNCHANGED << serviceItems, now, nextId, dbVars, reqs, splitVars, branches, httpVars, flightVars >>

deleteWasher(branchId, id) ==
  IF findWasherInBranch(id, branchId) = {}
    THEN AdminAnswer("deleteWasher", 404, branchId) /\ UNCHANGED washers
    ELSE /\ washers' = [washers EXCEPT ![id].isActive = FALSE]
         /\ AdminAnswer("deleteWasher", 200, branchId)

DeleteWasher(branchId, id) ==
  /\ protect(branchId)
  /\ adminOps < MaxAdminOps
  /\ deleteWasher(branchId, id)
  /\ UNCHANGED << serviceItems, now, nextId, dbVars, reqs, splitVars, branches, httpVars, flightVars >>

\* ServiceItem_name_key: another row holds the name
serviceItemNameTaken(name, notId) ==
  \E x \in DOMAIN serviceItems : x # notId /\ serviceItems[x].name = name

\* parseFloat(price) of a price that is given: isNaN(priceValue) || priceValue < 0
priceInvalid(price) == price # << >> /\ price[1] < 0

\* createServiceItem: price is << >> when absent, and then stored as 0
CreateServiceItem(name, price) ==
  /\ \E branchId \in BranchIds : protect(branchId)
  /\ adminOps < MaxAdminOps
  /\ Cardinality(DOMAIN serviceItems) - Cardinality(DOMAIN InitServiceItems)
       < Len(NewServiceItemIds)
  /\ IF name = << >> \/ priceInvalid(price) \/ serviceItemNameTaken(name, "")
       THEN AdminAnswer("createServiceItem", 400, "") /\ UNCHANGED serviceItems
       ELSE /\ serviceItems' =
                 (newServiceItemId :>
                    [name |-> name,
                     price |-> IF price = << >> THEN 0 ELSE price[1],
                     isActive |-> TRUE]) @@ serviceItems
            /\ AdminAnswer("createServiceItem", 201, "")
  /\ UNCHANGED << washers, now, nextId, dbVars, reqs, splitVars, branches, httpVars, flightVars >>

\* the row after prisma.serviceItem.update with data { name?, price?, isActive? }
patchedServiceItem(row, patch) ==
  [name |-> IF patch.name # << >> THEN patch.name ELSE row.name,
   price |-> IF patch.price # << >> THEN patch.price[1] ELSE row.price,
   isActive |-> IF patch.isActive # << >> THEN patch.isActive[1] ELSE row.isActive]

\* updateServiceItem: the price is validated, then the update is attempted; P2025
\* (no such row) is answered 404 and P2002 (name taken) 400
UpdateServiceItem(id, patch) ==
  /\ \E branchId \in BranchIds : protect(branchId)
  /\ adminOps < MaxAdminOps
  /\ IF priceInvalid(patch.price)
       THEN AdminAnswer("updateServiceItem", 400, "") /\ UNCHANGED serviceItems
       ELSE IF id \notin DOMAIN serviceItems
         THEN AdminAnswer("updateServiceItem", 404, "") /\ UNCHANGED serviceItems
         ELSE IF patch.name # << >> /\ serviceItemNameTaken(patch.name, id)
           THEN AdminAnswer("updateServiceItem", 400, "") /\ UNCHANGED serviceItems
           ELSE /\ serviceItems' =
                     [serviceItems EXCEPT ![id] = patchedServiceItem(@, patch)]
                /\ AdminAnswer("updateServiceItem", 200, "")
  /\ UNCHANGED << washers, now, nextId, dbVars, reqs, splitVars, branches, httpVars, flightVars >>

DeleteServiceItem(id) ==
  /\ \E branchId \in BranchIds : protect(branchId)
  /\ adminOps < MaxAdminOps
  /\ IF id \notin DOMAIN serviceItems
       THEN AdminAnswer("deleteServiceItem", 404, "") /\ UNCHANGED serviceItems
       ELSE /\ serviceItems' = [serviceItems EXCEPT ![id].isActive = FALSE]
            /\ AdminAnswer("deleteServiceItem", 200, "")
  /\ UNCHANGED << washers, now, nextId, dbVars, reqs, splitVars, branches, httpVars, flightVars >>

\* a branch is soft-deleted through its active flag
DeactivateBranch(branchId) ==
  /\ branches[branchId].isActive
  /\ adminOps < MaxAdminOps
  /\ branches' = [branches EXCEPT ![branchId].isActive = FALSE]
  /\ AdminAnswer("deactivateBranch", 200, branchId)
  /\ UNCHANGED << dirVars, now, nextId, dbVars, reqs, splitVars, httpVars, flightVars >>

\* ------------------------------------------------------------------------
\* app.js, the routers and the auth middleware: from a request to its handler
\* ------------------------------------------------------------------------

\* the User table. No code of the repository changes role, branch or isActive
\* of a user once created
Users ==
  [u \in {"u1", "u2", "u3"} |->
     CASE u = "u1" -> [role |-> "admin", branchId |-> "branch_a", isActive |-> TRUE]
       [] u = "u2" -> [role |-> "super_admin", branchId |-> "branch_b", isActive |-> TRUE]
       [] u = "u3" -> [role |-> "admin", branchId |-> "branch_a", isActive |-> FALSE]]

\* what a request carries as its token: nothing, the word 'none', a token
\* that does not verify, or a token signed for a user id ("u9": a user that
\* no longer exists)
Tokens == {<< >>, << "none" >>, << "forged" >>,
           << "u1" >>, << "u2" >>, << "u3" >>, << "u9" >>}

\* verifyToken(token): << decoded.id >>, or << >> when it does not verify
verifyToken(token) ==
  IF token # << >> /\ token[1] \in {"u1", "u2", "u3", "u9"} THEN token
  ELSE << >>

\* protect: the status it answers, or 0 when it calls next() with req.user
protectStatus(token) ==
  IF token = << >> \/ token = << "none" >> THEN 401
  ELSE IF verifyToken(token) = << >> THEN 401
  ELSE LET id == verifyToken(token)[1] IN
       IF id \notin DOMAIN Users THEN 401
       ELSE IF ~Users[id].isActive THEN 401
       ELSE IF ~protect(Users[id].branchId) THEN 401
       ELSE 0

Route(method, path, handler) ==
  [method |-> method, path |-> path, handler |-> handler]

recordRoutes ==
  << Route("POST", << "car-wash" >>, "createCarWashRecord"),
     Route("GET", << "car-wash" >>, "getCarWashRecords"),
     Route("GET", << "car-wash", ":id" >>, "getCarWashById"),
     Route("GET", << "washer", ":washerId", "daily-summary" >>,
           "getWasherDailySummary"),
     Route("GET", << "washers", "daily-summary" >>, "getAllWashersDailySummary"),
     Route("GET", << "company-summary" >>, "getCompanyDailySummary"),
     Route("GET", << "company-summary-all" >>,
           "getCompanyDailySummaryAllBranches") >>

helperRoutes ==
  << Route("POST", << "washers" >>, "createWasher"),
     Route("GET", << "washers" >>, "getAllWashers"),
     Route("GET", << "washers", ":id" >>, "getWasherById"),
     Route("PUT", << "washers", ":id" >>, "updateWasher"),
     Route("DELETE", << "washers", ":id" >>, "deleteWasher"),
     Route("POST", << "service-items" >>, "createServiceItem"),
     Route("GET", << "service-items" >>, "getAllServiceItems"),
     Route("GET", << "service-items", ":id" >>, "getServiceItemById"),
     Route("PUT", << "service-items", ":id" >>, "updateServiceItem"),
     Route("DELETE", << "service-items", ":id" >>, "deleteServiceItem") >>

paymentRoutes ==
  << Route("GET", << "daily-summary" >>, "getDailyPaymentSummary"),
     Route("GET", << "washer", ":washerId" >>, "getWasherPaymentSummary"),
     Route("GET", << "company-summary" >>, "getCompanyPaymentSummary") >>

Mount(prefix, usesProtect, routes) ==
  [prefix |-> prefix, usesProtect |-> usesProtect, routes |-> routes]

\* the payment router mounted ahead of the helper router
RoutersPaymentsFirst ==
  << Mount(<< "api", "records" >>, TRUE, recordRoutes),
     Mount(<< "api", "payments" >>, FALSE, paymentRoutes),
     Mount(<< "api" >>, TRUE, helperRoutes) >>

\* the routers of the core handlers in the order app.js mounts them; a
\* router that calls router.use(protect) runs it for every request under its
\* prefix, whether or not one of its routes matches
Routers ==
  << Mount(<< "api", "records" >>, TRUE, recordRoutes),
     Mount(<< "api" >>, TRUE, helperRoutes),
     Mount(<< "api", "payments" >>, FALSE, paymentRoutes) >>

underPrefix(prefix, path) ==
  /\ Len(prefix) <= Len(path)
  /\ SubSeq(path, 1, Len(prefix)) = prefix

routeMatches(route, method, path) ==
  /\ route.method = method
  /\ Len(route.path) = Len(path)
  /\ \A i \in 1 .. Len(path) :
       route.path[i] \in {":id", ":washerId"} \/ route.path[i] = path[i]

\* the first route of the router that matches, as << route >>, or << >>
firstMatch(routes, method, path) ==
  LET hits == {i \in 1 .. Len(routes) : routeMatches(routes[i], method, path)}
  IN IF hits = {} THEN << >>
     ELSE << routes[CHOOSE i \in hits : \A j \in hits : i <= j] >>

Unhandled(status) == [status |-> status, handler |-> "", user |-> ""]

RECURSIVE dispatchFrom(_, _)
\* Express tries the routers in mount order: a router whose prefix does not
\* match, or none of whose routes matches, passes the request on; protect
\* ends the request with 401; the 404 handler of app.js takes what is left
dispatchFrom(i, req) ==
  IF i > Len(Routers) THEN Unhandled(404)
  ELSE LET router == Routers[i]
           rest == SubSeq(req.path, Len(router.prefix) + 1, Len(req.path))
           hit == firstMatch(router.routes, req.method, rest)
       IN IF ~underPrefix(router.prefix, req.path) THEN dispatchFrom(i + 1, req)
          ELSE IF router.usesProtect /\ protectStatus(req.token) # 0
            THEN Unhandled(401)
          ELSE IF hit = << >> THEN dispatchFrom(i + 1, req)
          ELSE [status |-> 0, handler |-> hit[1].handler,
                user |-> IF verifyToken(req.token) = << >> THEN ""
                         ELSE verifyToken(req.token)[1]]

HttpRequest(method, path, token) ==
  [method |-> method, path |-> path, token |-> token]

NoHttpRequest == HttpRequest("", << >>, << >>)

\* one request for every route of the core handlers, and one for no route
Targets ==
  { << "POST", << "api", "records", "car-wash" >> >>,
    << "GET", << "api", "records", "car-wash" >> >>,
    << "GET", << "api", "records", "car-wash", "1" >> >>,
    << "GET", << "api", "records", "washer", "w1", "daily-summary" >> >>,
    << "GET", << "api", "records", "washers", "daily-summary" >> >>,
    << "GET", << "api", "records", "company-summary" >> >>,
    << "GET", << "api", "records", "company-summary-all" >> >>,
    << "POST", << "api", "washers" >> >>,
    << "GET", << "api", "washers" >> >>,
    << "GET", << "api", "washers", "w1" >> >>,
    << "PUT", << "api", "washers", "w1" >> >>,
    << "DELETE", << "api", "washers", "w1" >> >>,
    << "POST", << "api", "service-items" >> >>,
    << "GET", << "api", "service-items" >> >>,
    << "GET", << "api", "service-items", "s1" >> >>,
    << "PUT", << "api", "service-items", "s1" >> >>,
    << "DELETE", << "api", "service-items", "s1" >> >>,
    << "GET", << "api", "payments", "daily-summary" >> >>,
    << "GET", << "api", "payments", "washer", "w1" >> >>,
    << "GET", << "api", "payments", "company-summary" >> >>,
    << "GET", << "api", "payments", "refunds" >> >> }

HttpRequests == { HttpRequest(t[1], t[2], token) : t \in Targets, token \in Tokens }

\* the application takes the request through its middleware, up to the
\* handler or to the answer that ends it
Dispatch ==
  /\ httpReq # NoHttpRequest
  /\ httpRes = << >>
  /\ httpRes' = << dispatchFrom(1, httpReq) >>
  /\ UNCHANGED << dirVars, now, nextId, dbVars, reqs, splitVars, adminVars,
                  httpReq, flightVars >>

InitAuth ==
  /\ washers = InitWashers
  /\ serviceItems = InitServiceItems
  /\ now = 1
  /\ nextId = 1
  /\ carWashes = {}
  /\ dailySummary = << >>
  /\ companyDailySummary = << >>
  /\ reqs = [r \in Reqs |-> IdleReq]
  /\ splitIn = NoSplit
  /\ splitOut = << >>
  /\ branches = InitBranches
  /\ adminOps = 0
  /\ adminRes = NoAdminResponse
  /\ httpReq \in HttpRequests
  /\ httpRes = << >>
  /\ washerReqs = << >>
  /\ report = NoReport

\* a request arrives while branches are active or have been deactivated
NextAuth ==
  \/ Dispatch
  \/ \E branchId \in BranchIds : DeactivateBranch(branchId)

SpecAuth == InitAuth /\ [][NextAuth]_vars

Init ==
  /\ washers = InitWashers
  /\ serviceItems = InitServiceItems
  /\ now = 1
  /\ nextId = 1
  /\ carWashes = {}
  /\ dailySummary = << >>
  /\ companyDailySummary = << >>
  /\ reqs = [r \in Reqs |-> IdleReq]
  /\ splitIn = NoSplit
  /\ splitOut = << >>
  /\ branches = InitBranches
  /\ adminOps = 0
  /\ adminRes = NoAdminResponse
  /\ httpReq = NoHttpRequest
  /\ httpRes = << >>
  /\ washerReqs = << >>
  /\ report = NoReport

\* one request at a time, over all the submissions
NextSeq ==
  \/ \E branchId \in BranchIds, body \in Bodies :
       CreateCarWashRecord(1, branchId, body)
  \/ TxInvolvement(1)
  \/ TxUpsertDaily(1)
  \/ TxUpsertCompany(1)
  \/ TxCommit(1)
  \/ TxFail(1)
  \/ Finish(1)
  \/ Tick

SpecSeq == Init /\ [][NextSeq]_vars

\* the submissions sent while the directory is being edited
AdminBodies ==
  { [paymentMethod |-> << >>,
     items |-> << Line(SamName, FullWashName, << >>) >>],
    [paymentMethod |-> cashLiteral,
     items |-> << Line(SamName, FullWashName, << >>) >>],
    [paymentMethod |-> cashUpperName,
     items |-> << Line(SamName, EngineWashName, << >>) >>],
    [paymentMethod |-> transferLiteral,
     items |-> << Line(SamName, CarRugName, << 1 >>) >>],
    [paymentMethod |-> << >>,
     items |-> << Line(constructorName, FullWashName, << >>) >>],
    [paymentMethod |-> << >>,
     items |-> << Line(SamName, constructorName, << >>) >>],
    [paymentMethod |-> << >>,
     items |-> << Line(SamName, WaxName, << >>) >>],
    [paymentMethod |-> << >>,
     items |-> << Line(AdeName, FullWashName, << >>),
                  Line(SamName, FullWashName, << >>) >>] }

\* the washer and service item ids of the requests, one of them of no row
WasherIdInputs == {"w1", "w4", "w9"}

ServiceItemIdInputs == {"s3", "s4", "s9"}

WasherPatches ==
  { [name |-> BolaName, isActive |-> << >>],
    [name |-> SamName, isActive |-> << >>],
    [name |-> << >>, isActive |-> << TRUE >>] }

ServiceItemPatches ==
  { [name |-> EngineRugName, price |-> << >>, isActive |-> << >>],
    [name |-> << >>, price |-> << 70 >>, isActive |-> << >>],
    [name |-> << >>, price |-> << -1 >>, isActive |-> << >>],
    [name |-> << >>, price |-> << >>, isActive |-> << TRUE >>] }

\* one request at a time, while washers, service items and branches are edited
NextAdmin ==
  \/ \E branchId \in BranchIds, body \in AdminBodies :
       CreateCarWashRecord(1, branchId, body)
  \/ TxInvolvement(1)
  \/ TxUpsertDaily(1)
  \/ TxUpsertCompany(1)
  \/ TxCommit(1)
  \/ TxFail(1)
  \/ Finish(1)
  \/ Tick
  \/ \E branchId \in BranchIds, name \in {<< >>, SamName, AdeName} :
       CreateWasher(branchId, name)
  \/ \E branchId \in BranchIds, id \in WasherIdInputs, patch \in WasherPatches :
       UpdateWasher(branchId, id, patch)
  \/ \E branchId \in BranchIds, id \in WasherIdInputs : DeleteWasher(branchId, id)
  \/ \E name \in {<< >>, WaxName, RadiatorFlushName}, price \in {<< >>, << -1 >>} :
       CreateServiceItem(name, price)
  \/ \E id \in ServiceItemIdInputs, patch \in ServiceItemPatches :
       UpdateServiceItem(id, patch)
  \/ \E id \in ServiceItemIdInputs : DeleteServiceItem(id)
  \/ \E branchId \in BranchIds : DeactivateBranch(branchId)

SpecAdmin == Init /\ [][NextAdmin]_vars

\* concurrent requests
\* ------------------------------------------------------------------------
\* createWasher and updateWasher as they run: a name check, then a write
\* ------------------------------------------------------------------------

WasherReqs == 1 .. NumWasherReqs

IdleWasherReq ==
  [pc |-> "idle", op |-> "", branchId |-> "", id |-> "",
   patch |-> [name |-> << >>, isActive |-> << >>], status |-> 0]

WasherAnswer(k, op, branchId, id, patch, status) ==
  washerReqs' = [washerReqs EXCEPT ![k] =
                   [pc |-> IF status = 0 THEN "checked" ELSE "done", op |-> op,
                    branchId |-> branchId, id |-> id, patch |-> patch,
                    status |-> status]]

\* createWasher up to its prisma.washer.create: the checks of the name, each
\* an await that lets other requests run before the write
CreateWasherCheck(k, branchId, name) ==
  /\ protect(branchId)
  /\ washerReqs[k].pc = "idle"
  /\ WasherAnswer(k, "createWasher", branchId, "",
                  [name |-> name, isActive |-> << >>],
                  IF name = << >> THEN 400
                  ELSE IF findWasherByName(name, branchId, "") # {} THEN 400
                  ELSE 0)
  /\ UNCHANGED << dirVars, now, nextId, dbVars, reqs, splitVars, adminVars,
                  httpVars, report >>

\* updateWasher up to its prisma.washer.update
UpdateWasherCheck(k, branchId, id, patch) ==
  /\ protect(branchId)
  /\ washerReqs[k].pc = "idle"
  /\ WasherAnswer(k, "updateWasher", branchId, id, patch,
                  IF findWasherInBranch(id, branchId) = {} THEN 404
                  ELSE IF /\ patch.name # << >>
                          /\ patch.name # washers[id].name
                          /\ findWasherByName(patch.name, branchId, id) # {}
                    THEN 400
                  ELSE 0)
  /\ UNCHANGED << dirVars, now, nextId, dbVars, reqs, splitVars, adminVars,
                  httpVars, report >>

\* prisma.washer.create, prisma.washer.update({ where: { id } }): the table
\* has no unique index on the name, so the write goes through whatever was
\* written after the name was looked up
WasherWrite(k) ==
  LET q == washerReqs[k] IN
  /\ q.pc = "checked"
  /\ IF q.op = "createWasher"
       THEN /\ washers' = (newWasherId :> [name |-> q.patch.name,
                                           branchId |-> q.branchId,
                                           isActive |-> TRUE]) @@ washers
            /\ washerReqs' = [washerReqs EXCEPT ![k].pc = "done",
                                                ![k].id = newWasherId,
                                                ![k].status = 201]
       ELSE /\ washers' = [washers EXCEPT ![q.id] = patchedWasher(@, q.patch)]
            /\ washerReqs' = [washerReqs EXCEPT ![k].pc = "done",
                                                ![k].status = 200]
  /\ UNCHANGED << serviceItems, now, nextId, dbVars, reqs, splitVars, adminVars,
                  httpVars, report >>

InitWasherReqs ==
  /\ washers = InitWashers
  /\ serviceItems = InitServiceItems
  /\ now = 1
  /\ nextId = 1
  /\ carWashes = {}
  /\ dailySummary = << >>
  /\ companyDailySummary = << >>
  /\ reqs = [r \in Reqs |-> IdleReq]
  /\ splitIn = NoSplit
  /\ splitOut = << >>
  /\ branches = InitBranches
  /\ adminOps = 0
  /\ adminRes = NoAdminResponse
  /\ httpReq = NoHttpRequest
  /\ httpRes = << >>
  /\ washerReqs = [k \in WasherReqs |-> IdleWasherReq]
  /\ report = NoReport

\* washer writes of several callers, interleaved at their awaits
NextWasherReqs ==
  \/ \E k \in WasherReqs, branchId \in BranchIds,
        name \in {<< >>, SamName, BolaName, IdowuUpperName} :
       CreateWasherCheck(k, branchId, name)
  \/ \E k \in WasherReqs, branchId \in BranchIds,
        id \in {"w1", "w2", "w3", "w9"}, patch \in WasherPatches :
       UpdateWasherCheck(k, branchId, id, patch)
  \/ \E k \in WasherReqs : WasherWrite(k)

SpecWasherReqs == InitWasherReqs /\ [][NextWasherReqs]_vars

\* ------------------------------------------------------------------------
\* Soft deletes: washers and service items deactivated and reactivated
\* between submissions
\* ------------------------------------------------------------------------

\* the directory once a washer named 'constructor' has been created in
\* branch_a
SoftDeleteWashers ==
  ("w5" :> [name |-> constructorName, branchId |-> "branch_a",
            isActive |-> TRUE]) @@ InitWashers

InitSoftDelete ==
  /\ washers = SoftDeleteWashers
  /\ serviceItems = InitServiceItems
  /\ now = 1
  /\ nextId = 1
  /\ carWashes = {}
  /\ dailySummary = << >>
  /\ companyDailySummary = << >>
  /\ reqs = [r \in Reqs |-> IdleReq]
  /\ splitIn = NoSplit
  /\ splitOut = << >>
  /\ branches = InitBranches
  /\ adminOps = 0
  /\ adminRes = NoAdminResponse
  /\ httpReq = NoHttpRequest
  /\ httpRes = << >>
  /\ washerReqs = << >>
  /\ report = NoReport

\* single-line submissions naming each washer and service item of the
\* directory, a washer of no row, and a name of no row on a special line
SoftDeleteBodies ==
  [paymentMethod : {<< >>},
   items : { << Line(SamName, FullWashName, << >>) >>,
             << Line(SamName, EngineWashName, << >>) >>,
             << Line(SamName, WaxName, << >>) >>,
             << Line(AdeName, EngineWashName, << >>) >>,
             << Line(constructorName, EngineWashName, << >>) >>,
             << Line(constructorName, FullWashName, << >>) >> }]

\* deletes, and updates whose body is { isActive: true }
NextSoftDelete ==
  \/ \E branchId \in BranchIds, body \in SoftDeleteBodies :
       CreateCarWashRecord(1, branchId, body)
  \/ TxInvolvement(1)
  \/ TxUpsertDaily(1)
  \/ TxUpsertCompany(1)
  \/ TxCommit(1)
  \/ TxFail(1)
  \/ Finish(1)
  \/ \E branchId \in BranchIds, id \in {"w1", "w2", "w4", "w5"} :
       DeleteWasher(branchId, id)
  \/ \E branchId \in BranchIds, id \in {"w1", "w2", "w4", "w5"} :
       UpdateWasher(branchId, id, [name |-> << >>, isActive |-> << TRUE >>])
  \/ \E id \in {"s3", "s4"} : DeleteServiceItem(id)
  \/ \E id \in {"s3", "s4"} :
       UpdateServiceItem(id, [name |-> << >>, price |-> << >>,
                              isActive |-> << TRUE >>])

SpecSoftDelete == InitSoftDelete /\ [][NextSoftDelete]_vars

Next ==
  \/ \E r \in Reqs, branchId \in BranchIds, body \in ConcurrentBodies :
       CreateCarWashRecord(r, branchId, body)
  \/ \E r \in Reqs : TxInvolvement(r)
  \/ \E r \in Reqs : TxUpsertDaily(r)
  \/ \E r \in Reqs : TxUpsertCompany(r)
  \/ \E r \in Reqs : TxCommit(r)
  \/ \E r \in Reqs : TxFail(r)
  \/ \E r \in Reqs : Finish(r)
  \/ Tick

Spec == Init /\ [][Next]_vars

\* ------------------------------------------------------------------------
\* getDailyPaymentSummary: the per-washer counts rebuilt from the line items
\* ------------------------------------------------------------------------
\* prisma.washedItem.findMany({ carWash: { branchId, washDate within the day } }):
\* each line item as << job id, position >>
washedItemsOfDay(branchId, day) ==
  UNION {{<< cw.id, i >> : i \in 1..Len(cw.washedItems)} : cw \in
           {c \in carWashes : c.branchId = branchId /\ c.washDate = day}}

washedItemAt(x) == (CHOOSE cw \in carWashes : cw.id = x[1]).washedItems[x[2]]

\* washerSummaries[washerId]: itemsWashed, and carsWashed as the size of the set
\* of job ids
washerPaymentCounts(branchId, day, washerId) ==
  LET mine == {x \in washedItemsOfDay(branchId, day) :
                 washedItemAt(x).washerId = washerId}
  IN [itemsWashed |-> Cardinality(mine),
      carsWashed |-> Cardinality({x[1] : x \in mine})]

\* ------------------------------------------------------------------------
\* Summaries of a branch and day, rebuilt from the jobs and their line items
\* ------------------------------------------------------------------------
\* Math.round(x * 100), where x is n / SplitUnit: the amount in hundredths that
\* Math.round(x * 100) / 100 reports
roundCents(n) == (20 * n + 3) \div 6

\* the sum of the values of a function
RECURSIVE SumFn(_)
SumFn(fn) ==
  IF DOMAIN fn = {} THEN 0
  ELSE LET x == CHOOSE y \in DOMAIN fn : TRUE
       IN fn[x] + SumFn([y \in DOMAIN fn \ {x} |-> fn[y]])

\* the rows of transactions that have not committed are read as well
carWashRecordsOfDayUncommitted(branchId, day) ==
  {cw \in carWashes \cup UNION {Range(reqs[r].carWash) : r \in Reqs} :
     cw.branchId = branchId /\ cw.washDate = day}

\* prisma.carWash.findMany({ branchId, washDate within the day })
carWashRecordsOfDay(branchId, day) ==
  {cw \in carWashes : cw.branchId = branchId /\ cw.washDate = day}

reportedPriceListOnly(item) == serviceItems[item.serviceItemId].price

\* item.price || item.serviceItem.price
reportedPrice(item) ==
  IF item.price # 0 THEN item.price ELSE serviceItems[item.serviceItemId].price

\* calculatePaymentSplit(item.serviceItem.name, price)
reportedSplit(item) ==
  calculatePaymentSplit(serviceItems[item.serviceItemId].name, reportedPrice(item))

\* totalSales, companyEarnings and washerEarnings accumulated over the line items,
\* in 1/SplitUnit
salesTotals(items) ==
  [totalSales |-> SumFn([x \in items |-> SplitUnit * reportedPrice(washedItemAt(x))]),
   companyEarnings |-> SumFn([x \in items |-> reportedSplit(washedItemAt(x)).companyShare]),
   washerEarnings |-> SumFn([x \in items |-> reportedSplit(washedItemAt(x)).washerShare])]

methodCountsUnset(record, method) ==
  \/ record.paymentMethod = << >>
  \/ toLowerCase(record.paymentMethod) = method

\* record.paymentMethod is set and, in lower case, is the method
methodCounts(record, method) ==
  /\ record.paymentMethod # << >>
  /\ toLowerCase(record.paymentMethod) = method

\* paymentMethods[method] accumulated over the jobs, in 1/SplitUnit
paymentMethodTotal(records, method) ==
  SumFn([cw \in {c \in records : methodCounts(c, method)} |->
           SplitUnit * cw.totalAmount])

\* getCompanyDailySummary, lines 436-516: data.summary and data.paymentMethods
\* computed from the results of its two queries, in hundredths
companyDailySummaryOf(carWashRecords, washedItems) ==
  LET totals == salesTotals(washedItems)
  IN [totalEarnings |-> roundCents(totals.totalSales),
      companyShare |-> roundCents(totals.companyEarnings),
      workerShare |-> roundCents(totals.washerEarnings),
      totalJobs |-> Cardinality(carWashRecords),
      totalItemsWashed |-> Cardinality(washedItems),
      cash |-> roundCents(paymentMethodTotal(carWashRecords, cashLiteral)),
      transfer |-> roundCents(paymentMethodTotal(carWashRecords, transferLiteral))]

\* getCompanyDailySummary when nothing commits between its two queries
getCompanyDailySummary(branchId, day) ==
  companyDailySummaryOf(carWashRecordsOfDay(branchId, day),
                        washedItemsOfDay(branchId, day))

\* getCompanyDailySummary as it runs: prisma.carWash.findMany is awaited first
ReportFindCarWashes(branchId, day) ==
  /\ protect(branchId)
  /\ report = NoReport
  /\ report' = << [pc |-> "items", branchId |-> branchId, day |-> day,
                   carWashRecords |-> carWashRecordsOfDay(branchId, day),
                   res |-> << >>] >>
  /\ UNCHANGED << dirVars, now, nextId, dbVars, reqs, splitVars, adminVars,
                  httpVars, washerReqs >>

\* then prisma.washedItem.findMany, on the store as it is by then, and the
\* response is computed from the two results
ReportFindWashedItems ==
  /\ report # NoReport
  /\ report[1].pc = "items"
  /\ report' = << [report[1] EXCEPT
                     !.pc = "done",
                     !.res = << companyDailySummaryOf(
                                  report[1].carWashRecords,
                                  washedItemsOfDay(report[1].branchId,
                                                   report[1].day)) >>] >>
  /\ UNCHANGED << dirVars, now, nextId, dbVars, reqs, splitVars, adminVars,
                  httpVars, washerReqs >>

\* the submissions made while a report is computed
ReportBodies ==
  { [paymentMethod |-> cashLiteral,
     items |-> << Line(SamName, FullWashName, << >>) >>],
    [paymentMethod |-> << >>,
     items |-> << Line(SamName, EngineWashName, << >>),
                  Line(SamName, FullWashName, << >>) >>] }

\* one report of a branch and day, while jobs are created
NextReport ==
  \/ \E branchId \in BranchIds, body \in ReportBodies :
       CreateCarWashRecord(1, branchId, body)
  \/ TxInvolvement(1)
  \/ TxUpsertDaily(1)
  \/ TxUpsertCompany(1)
  \/ TxCommit(1)
  \/ TxFail(1)
  \/ Finish(1)
  \/ \E branchId \in BranchIds : ReportFindCarWashes(branchId, now)
  \/ ReportFindWashedItems

SpecReport == Init /\ [][NextReport]_vars

\* getCompanyPaymentSummary: data.summary and data.paymentMethods, in hundredths
getCompanyPaymentSummary(branchId, day) ==
  LET carWashRecords == carWashRecordsOfDay(branchId, day)
      washedItems == washedItemsOfDay(branchId, day)
      totals == salesTotals(washedItems)
  IN [totalSales |-> roundCents(totals.totalSales),
      companyEarnings |-> roundCents(totals.companyEarnings),
      washerEarnings |-> roundCents(totals.washerEarnings),
      totalCarsWashed |-> Cardinality(carWashRecords),
      totalItemsWashed |-> Cardinality(washedItems),
      cash |-> roundCents(paymentMethodTotal(carWashRecords, cashLiteral)),
      transfer |-> roundCents(paymentMethodTotal(carWashRecords, transferLiteral))]

\* the order of the characters under which names are sorted
Collation == << " " >> \o UpperCase \o LowerCase

charRank(c) == CHOOSE i \in 1..Len(Collation) : Collation[i] = c

\* a sorts before b
RECURSIVE nameBefore(_, _)
nameBefore(a, b) ==
  IF b = << >> THEN FALSE
  ELSE IF a = << >> THEN TRUE
  ELSE IF Head(a) # Head(b) THEN charRank(Head(a)) < charRank(Head(b))
  ELSE nameBefore(Tail(a), Tail(b))

\* the branch ids, by name ascending
RECURSIVE orderByName(_)
orderByName(ids) ==
  IF ids = {} THEN << >>
  ELSE LET first == CHOOSE b \in ids :
                      \A c \in ids \ {b} : nameBefore(branches[b].name, branches[c].name)
       IN << first >> \o orderByName(ids \ {first})

allBranchesFindMany == orderByName(DOMAIN branches)

\* prisma.branch.findMany({ where: { isActive: true }, orderBy: { name: 'asc' } })
branchFindMany == orderByName({b \in DOMAIN branches : branches[b].isActive})

\* an element of branchSummaries, in hundredths
branchSummaryOf(branchId, day) ==
  LET carWashRecords == carWashRecordsOfDay(branchId, day)
      washedItems == washedItemsOfDay(branchId, day)
      totals == salesTotals(washedItems)
  IN [branch |-> branchId,
      totalEarnings |-> roundCents(totals.totalSales),
      companyShare |-> roundCents(totals.companyEarnings),
      workerShare |-> roundCents(totals.washerEarnings),
      totalJobs |-> Cardinality(carWashRecords),
      totalItemsWashed |-> Cardinality(washedItems),
      cash |-> roundCents(paymentMethodTotal(carWashRecords, cashLiteral)),
      transfer |-> roundCents(paymentMethodTotal(carWashRecords, transferLiteral))]

\* branchSummaries.reduce(...): the sum of a field, itself in hundredths, so that
\* the final Math.round(x * 100) / 100 leaves it as it is
overallTotal(branchSummaries, field) ==
  SumFn([i \in 1..Len(branchSummaries) |-> branchSummaries[i][field]])

\* getCompanyDailySummaryAllBranches: data.branches and data.overallTotals
getCompanyDailySummaryAllBranches(day) ==
  LET found == branchFindMany
      branchSummaries == [i \in 1..Len(found) |-> branchSummaryOf(found[i], day)]
  IN [branches |-> branchSummaries,
      overallTotals |->
        [field \in {"totalEarnings", "companyShare", "workerShare", "totalJobs",
                    "totalItemsWashed", "cash", "transfer"} |->
           overallTotal(branchSummaries, field)]]

\* ------------------------------------------------------------------------
\* Lookups and lists of a branch
\* ------------------------------------------------------------------------
NotFound(message) == [status |-> 404, message |-> message, data |-> {}]

Found(data) == [status |-> 200, message |-> "", data |-> data]

\* getCarWashById: prisma.carWash.findFirst({ where: { id, branchId } })
getCarWashById(branchId, id) ==
  LET record == {cw \in carWashes : cw.id = id /\ cw.branchId = branchId}
  IN IF record = {} THEN NotFound("Car wash record not found in your branch")
     ELSE Found(record)

getWasherById(branchId, id) ==
  IF findWasherInBranch(id, branchId) = {}
    THEN NotFound("Washer not found in your branch")
    ELSE Found({id})

\* getWasherDailySummary: the washer is looked up in the caller's branch, then the
\* row of the washer, day and branch
getWasherDailySummary(branchId, washerId, day) ==
  IF findWasherInBranch(washerId, branchId) = {}
    THEN NotFound("Washer not found in your branch")
    ELSE IF << washerId, day, branchId >> \notin DOMAIN dailySummary
      THEN NotFound("No summary found for this washer on the specified date")
      ELSE Found({<< washerId, day, branchId >>})

\* getAllWashers: the ids of the rows found
getAllWashers(branchId) == {w \in DOMAIN washers : washers[w].branchId = branchId}

\* getAllWashersDailySummary: the keys of the rows found
getAllWashersDailySummary(branchId, day) ==
  {k \in DOMAIN dailySummary : k[2] = day /\ k[3] = branchId}

\* getCarWashRecords: washerId is << >> when the query has none
getCarWashRecords(branchId, day, washerId) ==
  IF washerId # << >> /\ findWasherInBranch(washerId[1], branchId) = {}
    THEN [status |-> 400, message |-> "Washer not found in your branch", data |-> {}]
    ELSE Found({cw \in carWashRecordsOfDay(branchId, day) :
                  washerId # << >> => washerId[1] \in cw.washers})

\* ------------------------------------------------------------------------
\* The split policy on its own
\* ------------------------------------------------------------------------
\* each name with the category it is expected to fall in
SplitCases ==
  { << EngineWashName, "special" >>,
    << EngineRugName, "special" >>,
    << RadiatorFlushName, "special" >>,
    << AcCondenserName, "special" >>,
    << EngineerName, "special" >>,
    << CarRugName, "rug" >>,
    << RugUpperName, "rug" >>,
    << FullWashName, "regular" >>,
    << WaxName, "regular" >> }

SplitPrices == (0..MaxSplitPrice) \cup {50, 100, 300}

InitSplit ==
  /\ washers = InitWashers
  /\ serviceItems = InitServiceItems
  /\ now = 1
  /\ nextId = 1
  /\ carWashes = {}
  /\ dailySummary = << >>
  /\ companyDailySummary = << >>
  /\ reqs = [r \in Reqs |-> IdleReq]
  /\ \E c \in SplitCases, p \in SplitPrices :
       splitIn = [name |-> c[1], price |-> p, category |-> c[2]]
  /\ splitOut = << >>
  /\ branches = InitBranches
  /\ adminOps = 0
  /\ adminRes = NoAdminResponse
  /\ httpReq = NoHttpRequest
  /\ httpRes = << >>
  /\ washerReqs = << >>
  /\ report = NoReport

ApplySplit ==
  /\ splitOut = << >>
  /\ splitOut' = << calculatePaymentSplit(splitIn.name, splitIn.price) >>
  /\ UNCHANGED << dirVars, now, nextId, dbVars, reqs, splitIn, adminVars, httpVars, flightVars >>

NextSplit == ApplySplit

SpecSplit == InitSplit /\ [][NextSplit]_vars

\* ------------------------------------------------------------------------
\* Properties
\* ------------------------------------------------------------------------

\* C8: calculatePaymentSplit classifies a name case-insensitively as special
\* (engine, radiator, condenser) before rug before regular, a name matching both
\* being special; the washer gets price/3 and the company 2*price/3 for special,
\* each half for rug, the company 60% and the washer 40% for regular; and the two
\* shares add up to the price.
C8_SplitByCategory ==
  splitOut # << >> =>
    LET shares == splitOut[1]
        whole == splitIn.price * SplitUnit
    IN /\ shares.companyShare + shares.washerShare = whole
       /\ splitIn.category = "special" =>
            /\ 3 * shares.washerShare = whole
            /\ 3 * shares.companyShare = 2 * whole
       /\ splitIn.category = "rug" =>
            /\ 2 * shares.washerShare = whole
            /\ 2 * shares.companyShare = whole
       /\ splitIn.category = "regular" =>
            /\ 10 * shares.companyShare = 6 * whole
            /\ 10 * shares.washerShare = 4 * whole

C8_Witness ==
  /\ splitOut # << >>
  /\ splitIn.name = EngineRugName
  /\ splitIn.price = 300
  /\ splitOut[1].washerShare = 100 * SplitUnit
  /\ splitOut[1].companyShare = 200 * SplitUnit

\* What the properties below say of a request and of the store, stated without
\* the operators of the handler.

\* the submitted service item names that are special items
SpecialNames == {EngineWashName}

\* the spellings of Idowu, case ignored, held by the Washer table
IdowuSpellings == {IdowuLiteral, IdowuLowerName}

BodyHasSpecialLine(body) ==
  \E i \in 1..Len(body.items) : body.items[i].serviceItemName \in SpecialNames

BranchHasActiveIdowu(branchId) ==
  \E w \in DOMAIN washers :
    /\ washers[w].name \in IdowuSpellings
    /\ washers[w].branchId = branchId
    /\ washers[w].isActive

\* request r is answered in this step
Answered(r) == reqs[r].pc # "responded" /\ reqs'[r].pc = "responded"

\* the job a 201 response reports
JobOf(r) == CHOOSE cw \in carWashes : cw.id = reqs[r].res.data

Created(r) == reqs[r].pc = "responded" /\ reqs[r].res.status = 201

CarsWashedOf(table, key) ==
  IF key \in DOMAIN table THEN table[key].totalCarsWashed ELSE 0

ItemsWashedOf(table, key) ==
  IF key \in DOMAIN table THEN table[key].totalItemsWashed ELSE 0

LinesCredited(cw, w) ==
  Cardinality({i \in 1..Len(cw.washedItems) : cw.washedItems[i].washerId = w})

\* C1: a submission with a special line, in a branch with no active washer named
\* Idowu (case ignored), fails: it is answered 400, and no job, no line item and
\* no aggregate row is created or changed.
C1_SpecialWithoutIdowuRejected ==
  [][\A r \in Reqs :
       (/\ reqs[r].pc = "idle"
        /\ reqs'[r].pc # "idle"
        /\ BodyHasSpecialLine(reqs'[r].body)
        /\ ~BranchHasActiveIdowu(reqs'[r].branchId))
       => (/\ reqs'[r].pc = "responded"
           /\ reqs'[r].res.status = 400
           /\ carWashes' = carWashes
           /\ dailySummary' = dailySummary
           /\ companyDailySummary' = companyDailySummary)]_vars

C1_Witness ==
  \E r \in Reqs :
    /\ reqs[r].pc = "responded"
    /\ BodyHasSpecialLine(reqs[r].body)
    /\ ~BranchHasActiveIdowu(reqs[r].branchId)
    /\ reqs[r].res.status = 400
    /\ reqs[r].res.message = "idowu"
    /\ carWashes # {}

\* C2: job creation is all or nothing: a step either commits one job with all its
\* line items, its washer links, the item counts of every credited washer's
\* per-washer-day row and the per-branch-day row, and answers 201; or it leaves
\* jobs, line items, links and both aggregate tables as they were.
JobCommitted(r) ==
  LET job == reqs[r].carWash[1]
      branchId == reqs[r].branchId
      today == reqs[r].today
      lines == Len(reqs[r].body.items)
      credited == {job.washedItems[i].washerId : i \in 1..Len(job.washedItems)}
      dailyKeys == {<< w, today, branchId >> : w \in credited}
      companyKey == << branchId, today >>
  IN /\ job \notin carWashes
     /\ carWashes' = carWashes \cup {job}
     /\ Len(job.washedItems) = lines
     /\ lines > 0
     /\ job.washers = credited
     /\ DOMAIN dailySummary' = DOMAIN dailySummary \cup dailyKeys
     /\ \A k \in DOMAIN dailySummary' :
          IF k \in dailyKeys
            THEN ItemsWashedOf(dailySummary', k)
                   = ItemsWashedOf(dailySummary, k) + LinesCredited(job, k[1])
            ELSE dailySummary'[k] = dailySummary[k]
     /\ DOMAIN companyDailySummary' = DOMAIN companyDailySummary \cup {companyKey}
     /\ \A k \in DOMAIN companyDailySummary' :
          IF k = companyKey
            THEN /\ CarsWashedOf(companyDailySummary', k)
                      = CarsWashedOf(companyDailySummary, k) + 1
                 /\ ItemsWashedOf(companyDailySummary', k)
                      = ItemsWashedOf(companyDailySummary, k) + lines
            ELSE companyDailySummary'[k] = companyDailySummary[k]

C2_AllOrNothing ==
  [][\/ \E r \in Reqs :
          /\ Answered(r)
          /\ reqs'[r].res.status = 201
          /\ JobCommitted(r)
     \/ /\ \A r \in Reqs : Answered(r) => reqs'[r].res.status # 201
        /\ carWashes' = carWashes
        /\ dailySummary' = dailySummary
        /\ companyDailySummary' = companyDailySummary]_vars

\* the transaction of a two-line submission was rolled back, while a job of the
\* same branch is committed
C2_Witness ==
  \E r \in Reqs :
    /\ reqs[r].pc = "responded"
    /\ reqs[r].res.status = 500
    /\ Len(reqs[r].body.items) = 2
    /\ Cardinality(carWashes) = 1
    /\ \A cw \in carWashes : cw.branchId = reqs[r].branchId

\* C3: on a created job, the line item of a special line is credited to the
\* branch's active Idowu washer, and the line item of any other line (a rug line
\* too) to the active washer of the caller's branch that has the submitted name.
C3_CreditedWasher ==
  \A r \in Reqs :
    Created(r) =>
      LET job == JobOf(r)
          items == reqs[r].body.items
      IN /\ Len(job.washedItems) = Len(items)
         /\ \A i \in 1..Len(items) :
              LET w == washers[job.washedItems[i].washerId]
              IN /\ w.isActive
                 /\ w.branchId = reqs[r].branchId
                 /\ IF items[i].serviceItemName \in SpecialNames
                      THEN w.name \in IdowuSpellings
                      ELSE w.name = items[i].washerName

\* a job with a rug line and a special line, both submitted for Sam
C3_Witness ==
  \E r \in Reqs :
    /\ Created(r)
    /\ Len(reqs[r].body.items) = 2
    /\ reqs[r].body.items[1] = Line(SamName, CarRugName, << 1 >>)
    /\ reqs[r].body.items[2] = Line(SamName, EngineWashName, << >>)
    /\ JobOf(r).washedItems[1].washerId = "w2"
    /\ JobOf(r).washedItems[2].washerId = "w1"

\* the list price of the active service item of that name: << >> when there is
\* none
ListPriceOf(serviceItemName) ==
  LET found == {x \in DOMAIN serviceItems :
                  serviceItems[x].name = serviceItemName /\ serviceItems[x].isActive}
  IN IF found = {} THEN << >>
     ELSE << serviceItems[CHOOSE x \in found : TRUE].price >>

RECURSIVE PriceOfFirst(_, _)
PriceOfFirst(washedItems, n) ==
  IF n = 0 THEN 0 ELSE PriceOfFirst(washedItems, n - 1) + washedItems[n].price

\* C9: on a created job, the price of each line item is the submitted custom
\* price when the service item's list price is 0 and the list price otherwise (a
\* custom price sent for a fixed-price item is ignored), and the job's total
\* amount is the sum of the prices of its line items.
C9_EffectivePrice ==
  \A r \in Reqs :
    Created(r) =>
      LET job == JobOf(r)
          items == reqs[r].body.items
      IN /\ Len(job.washedItems) = Len(items)
         /\ \A i \in 1..Len(items) :
              LET listPrice == ListPriceOf(items[i].serviceItemName)
              IN /\ listPrice # << >>
                 /\ serviceItems[job.washedItems[i].serviceItemId].name
                      = items[i].serviceItemName
                 /\ IF listPrice[1] = 0
                      THEN /\ items[i].customPrice # << >>
                           /\ job.washedItems[i].price = items[i].customPrice[1]
                      ELSE job.washedItems[i].price = listPrice[1]
         /\ job.totalAmount = PriceOfFirst(job.washedItems, Len(job.washedItems))

\* a job whose fixed-price line was sent with a custom price, after a job with a
\* variable-price line
C9_Witness ==
  \E r \in Reqs :
    /\ Created(r)
    /\ reqs[r].body.items[1] = Line(SamName, FullWashName, << 1 >>)
    /\ JobOf(r).washedItems[1].price = 50
    /\ Len(reqs[r].body.items) = 2
    /\ JobOf(r).totalAmount = 350
    /\ \E cw \in carWashes :
         /\ cw.washedItems[1].serviceItemId = "s2"
         /\ cw.washedItems[1].price = 1

\* a line of a variable-price service item with no custom price above 0
BodyHasUnpricedLine(body) ==
  \E i \in 1..Len(body.items) :
    /\ ListPriceOf(body.items[i].serviceItemName) = << 0 >>
    /\ \/ body.items[i].customPrice = << >>
       \/ body.items[i].customPrice[1] <= 0

PaymentMethodAccepted(body) ==
  body.paymentMethod \in {<< >>, cashLiteral, transferLiteral}

AllWasherNamesResolve(branchId, body) ==
  \A i \in 1..Len(body.items) :
    \E w \in DOMAIN washers :
      /\ washers[w].name = body.items[i].washerName
      /\ washers[w].branchId = branchId
      /\ washers[w].isActive

AllServiceItemNamesResolve(body) ==
  \A i \in 1..Len(body.items) : ListPriceOf(body.items[i].serviceItemName) # << >>

\* C10 as claimed: a submission with a line of a variable-price service item and
\* no custom price above 0 is rejected as a missing-price violation, whatever
\* else is wrong with its washer names, its service item names or the branch's
\* Idowu.
C10_PriceCheckedFirst ==
  \A r \in Reqs :
    (/\ reqs[r].pc = "responded"
     /\ PaymentMethodAccepted(reqs[r].body)
     /\ BodyHasUnpricedLine(reqs[r].body))
    => (/\ reqs[r].res.status = 400
        /\ reqs[r].res.message = "customPrice")

\* C10 as amended: such a submission is rejected with nothing persisted, and the
\* price check comes last: the rejection is the missing-price one exactly when
\* the payment method, Idowu, washer name and service item name checks pass.
C10_PriceCheckedLast ==
  [][\A r \in Reqs :
       (/\ reqs[r].pc = "idle"
        /\ reqs'[r].pc # "idle"
        /\ BodyHasUnpricedLine(reqs'[r].body))
       => (/\ reqs'[r].pc = "responded"
           /\ reqs'[r].res.status = 400
           /\ carWashes' = carWashes
           /\ dailySummary' = dailySummary
           /\ companyDailySummary' = companyDailySummary
           /\ reqs'[r].res.message = "customPrice"
                <=> (/\ PaymentMethodAccepted(reqs'[r].body)
                     /\ BodyHasSpecialLine(reqs'[r].body)
                          => BranchHasActiveIdowu(reqs'[r].branchId)
                     /\ AllWasherNamesResolve(reqs'[r].branchId, reqs'[r].body)
                     /\ AllServiceItemNamesResolve(reqs'[r].body)))]_vars

\* the missing-price rejection of a line sent with custom price 0
C10_Witness ==
  \E r \in Reqs :
    /\ reqs[r].pc = "responded"
    /\ Len(reqs[r].body.items) = 1
    /\ reqs[r].body.items[1] = Line(SamName, CarRugName, << 0 >>)
    /\ reqs[r].res.status = 400
    /\ reqs[r].res.message = "customPrice"
    /\ reqs[r].res.names = {CarRugName}

Days == 1..MaxDay

\* C4 as claimed: a created job adds exactly 1 to the per-washer-day job counter
\* of each distinct washer credited on it, however many of its lines the washer
\* has, and adds the number of those lines to the washer's item counter.
C4_JobCounterPlusOne ==
  [][\A r \in Reqs :
       (Answered(r) /\ reqs'[r].res.status = 201)
       => LET job == reqs[r].carWash[1]
          IN \A w \in {job.washedItems[i].washerId : i \in 1..Len(job.washedItems)} :
               LET key == << w, job.washDate, job.branchId >>
               IN /\ CarsWashedOf(dailySummary', key)
                       = CarsWashedOf(dailySummary, key) + 1
                  /\ ItemsWashedOf(dailySummary', key)
                       = ItemsWashedOf(dailySummary, key) + LinesCredited(job, w)]_vars

\* C5 as claimed: when two requests in flight together have both committed a job
\* crediting the same washer on the same day in the same branch, that washer's
\* per-washer-day job counter is 2.
C5_TwoConcurrentJobsCountTwo ==
  \A r1 \in Reqs, r2 \in Reqs :
    (/\ r1 # r2
     /\ Created(r1)
     /\ Created(r2)
     /\ Cardinality(carWashes) = 2
     /\ JobOf(r1).branchId = JobOf(r2).branchId
     /\ JobOf(r1).washDate = JobOf(r2).washDate)
    => \A w \in DOMAIN washers :
         (LinesCredited(JobOf(r1), w) > 0 /\ LinesCredited(JobOf(r2), w) > 0)
         => CarsWashedOf(dailySummary,
                         << w, JobOf(r1).washDate, JobOf(r1).branchId >>) = 2

\* C6 as claimed: for every washer, branch and day, the per-washer-day row agrees
\* with the counts rebuilt from the line items, as the payment summary reports
\* them: carsWashed and itemsWashed.
C6_AggregateMatchesLineItems ==
  \A w \in DOMAIN washers, b \in BranchIds, d \in Days :
    /\ CarsWashedOf(dailySummary, << w, d, b >>)
         = washerPaymentCounts(b, d, w).carsWashed
    /\ ItemsWashedOf(dailySummary, << w, d, b >>)
         = washerPaymentCounts(b, d, w).itemsWashed

\* C7 as claimed: for every branch and day, the per-branch-day row counts the
\* committed jobs of that branch and day and their line items.
C7_BranchDayMatchesJobs ==
  \A b \in BranchIds, d \in Days :
    /\ CarsWashedOf(companyDailySummary, << b, d >>)
         = Cardinality({cw \in carWashes : cw.branchId = b /\ cw.washDate = d})
    /\ ItemsWashedOf(companyDailySummary, << b, d >>)
         = Cardinality(washedItemsOfDay(b, d))

\* ------------------------------------------------------------------------
\* Claims on name resolution, stored jobs and reports
\* ------------------------------------------------------------------------
WasherNameResolves(branchId, name) ==
  \E w \in DOMAIN washers :
    /\ washers[w].name = name
    /\ washers[w].branchId = branchId
    /\ washers[w].isActive

\* the submitted washer names with no active washer of the branch
UnmatchedWasherNames(branchId, body) ==
  {body.items[i].washerName : i \in
     {j \in 1..Len(body.items) :
        ~WasherNameResolves(branchId, body.items[j].washerName)}}

HasUnmatchedWasherLine(branchId, body) ==
  \E i \in 1..Len(body.items) :
    /\ body.items[i].serviceItemName \notin SpecialNames
    /\ ~WasherNameResolves(branchId, body.items[i].washerName)

PaymentMethodRecognised(body) ==
  \/ body.paymentMethod = << >>
  \/ toLowerCase(body.paymentMethod) \in {cashLiteral, transferLiteral}

\* request r is taken up in this step
TakenUp(r) == reqs[r].pc = "idle" /\ reqs'[r].pc # "idle"

TablesUnchanged ==
  /\ carWashes' = carWashes
  /\ dailySummary' = dailySummary
  /\ companyDailySummary' = companyDailySummary

\* C11 as claimed: a submission with a non-special line whose washer name has no
\* active washer of that name in the caller's branch is rejected with nothing
\* persisted, and, the payment method and Idowu checks passing, the error lists
\* exactly the submitted washer names that have no match.
C11_UnmatchedWashersListed ==
  [][\A r \in Reqs :
       (TakenUp(r) /\ HasUnmatchedWasherLine(reqs'[r].branchId, reqs'[r].body))
       => (/\ reqs'[r].pc = "responded"
           /\ reqs'[r].res.status # 201
           /\ TablesUnchanged
           /\ (/\ PaymentMethodRecognised(reqs'[r].body)
               /\ BodyHasSpecialLine(reqs'[r].body)
                    => BranchHasActiveIdowu(reqs'[r].branchId))
              => (/\ reqs'[r].res.status = 400
                  /\ reqs'[r].res.message = "washers"
                  /\ reqs'[r].res.names
                       = UnmatchedWasherNames(reqs'[r].branchId, reqs'[r].body)))]_vars

HasUnmatchedServiceItemLine(body) ==
  \E i \in 1..Len(body.items) : ListPriceOf(body.items[i].serviceItemName) = << >>

\* C12: a submission naming a service item of which there is no active row is
\* rejected with nothing persisted; service items are matched over all branches:
\* in whatever branch a job is created, each of its line items holds the active
\* service item that has the submitted name.
C12_UnmatchedServiceItemRejected ==
  [][\A r \in Reqs :
       TakenUp(r) =>
         /\ HasUnmatchedServiceItemLine(reqs'[r].body)
              => (/\ reqs'[r].pc = "responded"
                  /\ reqs'[r].res.status # 201
                  /\ TablesUnchanged)
         /\ reqs'[r].pc # "responded"
              => \A i \in 1..Len(reqs'[r].body.items) :
                   LET s == reqs'[r].carWash[1].washedItems[i].serviceItemId
                   IN /\ serviceItems[s].isActive
                      /\ serviceItems[s].name = reqs'[r].body.items[i].serviceItemName]_vars

\* Full Wash has been used by a job of branch_a and then deactivated: a
\* submission of branch_b naming it is rejected
C12_Witness ==
  /\ reqs[1].pc = "responded"
  /\ reqs[1].branchId = "branch_b"
  /\ reqs[1].body.items = << Line(SamName, FullWashName, << >>) >>
  /\ reqs[1].res.status = 400
  /\ reqs[1].res.message = "serviceItems"
  /\ reqs[1].res.names = {FullWashName}
  /\ ~serviceItems["s3"].isActive
  /\ \E cw \in carWashes :
       cw.branchId = "branch_a" /\ cw.washedItems[1].serviceItemId = "s3"

IsIdowuOfBranch(w, branchId) ==
  /\ toLowerCase(washers[w].name) = toLowerCase(IdowuLiteral)
  /\ washers[w].branchId = branchId

\* C13 as claimed: whatever jobs have been submitted and whatever washers and
\* service items have been created, renamed, repriced, deactivated or
\* reactivated, every stored line item whose service item is special by its
\* current name is credited to the Idowu washer of the job's branch.
C13_SpecialByCurrentNameCreditedToIdowu ==
  \A cw \in carWashes :
    \A i \in 1..Len(cw.washedItems) :
      isSpecialItem(serviceItems[cw.washedItems[i].serviceItemId].name)
      => IsIdowuOfBranch(cw.washedItems[i].washerId, cw.branchId)

\* C14: every line item's credited washer belongs to the branch of the line
\* item's job, the Idowu washer credited in place of the submitted name included.
C14_CreditedWasherOfJobBranch ==
  \A cw \in carWashes :
    \A i \in 1..Len(cw.washedItems) :
      washers[cw.washedItems[i].washerId].branchId = cw.branchId

\* a job of each branch is stored, the one of branch_a with a special line
\* submitted for Sam and credited to the branch's Idowu, who has been renamed since
C14_Witness ==
  /\ \E cw \in carWashes :
       /\ cw.branchId = "branch_a"
       /\ cw.washedItems[1].serviceItemId = "s1"
       /\ cw.washedItems[1].washerId = "w1"
  /\ \E cw \in carWashes : cw.branchId = "branch_b"
  /\ washers["w1"].name = BolaName

\* the jobs of a branch and day
JobsOf(b, d) == {cw \in carWashes : cw.branchId = b /\ cw.washDate = d}

\* the sum of the stored prices of the line items of the jobs
RECURSIVE StoredPriceSum(_)
StoredPriceSum(jobs) ==
  IF jobs = {} THEN 0
  ELSE LET cw == CHOOSE c \in jobs : TRUE
       IN PriceOfFirst(cw.washedItems, Len(cw.washedItems))
            + StoredPriceSum(jobs \ {cw})

\* hundredths in a currency unit
Hundredths == 100

\* C15: for every branch and day, the total sales of the company daily summary
\* and of the company payment summary are the sum of the stored prices of the
\* line items of the jobs of that branch and day, whatever the aggregate tables
\* hold and whatever the service items cost now.
C15_TotalSalesFromLineItems ==
  \A b \in BranchIds, d \in Days :
    /\ getCompanyDailySummary(b, d).totalEarnings
         = Hundredths * StoredPriceSum(JobsOf(b, d))
    /\ getCompanyPaymentSummary(b, d).totalSales
         = Hundredths * StoredPriceSum(JobsOf(b, d))

\* a day of branch_a with a rug line sold at its custom price and a Full Wash
\* line sold at 50 before Full Wash was repriced to 70, while the per-branch-day
\* row counts one job only
C15_Witness ==
  \E d \in Days :
    /\ getCompanyDailySummary("branch_a", d).totalEarnings = 5100
    /\ getCompanyPaymentSummary("branch_a", d).totalItemsWashed = 2
    /\ serviceItems["s3"].price = 70
    /\ serviceItems["s2"].price = 0
    /\ CarsWashedOf(companyDailySummary, << "branch_a", d >>) = 1

\* the spellings under which a stored payment method is cash, or transfer
MethodSpellings(method) ==
  IF method = "cash" THEN {cashLiteral, cashUpperName} ELSE {transferLiteral}

RECURSIVE TotalAmountSum(_)
TotalAmountSum(jobs) ==
  IF jobs = {} THEN 0
  ELSE LET cw == CHOOSE c \in jobs : TRUE
       IN cw.totalAmount + TotalAmountSum(jobs \ {cw})

PaidBy(jobs, method) == {cw \in jobs : cw.paymentMethod \in MethodSpellings(method)}

\* C16: in the summary of a branch and day, the cash total is the sum of the
\* stored total amounts of the jobs whose payment method is cash, case ignored,
\* and the transfer total likewise; a job with no payment method adds to
\* neither, so that cash plus transfer is at most the sum of the job totals.
C16_PaymentBuckets ==
  \A b \in BranchIds, d \in Days :
    LET daily == getCompanyDailySummary(b, d)
        payment == getCompanyPaymentSummary(b, d)
    IN /\ daily.cash = Hundredths * TotalAmountSum(PaidBy(JobsOf(b, d), "cash"))
       /\ daily.transfer = Hundredths * TotalAmountSum(PaidBy(JobsOf(b, d), "transfer"))
       /\ payment.cash = daily.cash
       /\ payment.transfer = daily.transfer
       /\ daily.cash + daily.transfer <= Hundredths * TotalAmountSum(JobsOf(b, d))

\* a day of branch_a with a job paid in 'CASH' and a job with no payment method
C16_Witness ==
  \E d \in Days :
    /\ \E cw \in JobsOf("branch_a", d) : cw.paymentMethod = cashUpperName
    /\ \E cw \in JobsOf("branch_a", d) : cw.paymentMethod = << >>
    /\ getCompanyDailySummary("branch_a", d).cash = 30000
    /\ getCompanyDailySummary("branch_a", d).transfer = 0
    /\ TotalAmountSum(JobsOf("branch_a", d)) = 350

\* the seed's branches, 'Branch A' before 'Branch B'
BranchesByName == << "branch_a", "branch_b" >>

PositionByName(b) == CHOOSE i \in 1..Len(BranchesByName) : BranchesByName[i] = b

ActiveBranchIds == {b \in BranchIds : branches[b].isActive}

SummaryFields ==
  {"totalEarnings", "companyShare", "workerShare", "totalJobs", "totalItemsWashed",
   "cash", "transfer"}

RECURSIVE FieldSum(_, _, _)
FieldSum(results, field, n) ==
  IF n = 0 THEN 0 ELSE FieldSum(results, field, n - 1) + results[n][field]

\* the jobs of a day in the branches that are active
ActiveJobsOf(d) == UNION {JobsOf(b, d) : b \in ActiveBranchIds}

\* C17: the all-branches summary of a day holds one result per active branch, in
\* ascending order of branch name; each overall
\* total (sales, company share, washer share, jobs, items, cash, transfer) is
\* the sum of the per-branch results; the jobs of an inactive branch count in
\* none of them.
C17_AllBranchesSummary ==
  \A d \in Days :
    LET result == getCompanyDailySummaryAllBranches(d)
        n == Len(result.branches)
    IN /\ {result.branches[i].branch : i \in 1..n} = ActiveBranchIds
       /\ n = Cardinality(ActiveBranchIds)
       /\ \A i \in 1..n, j \in 1..n :
            i < j => PositionByName(result.branches[i].branch)
                       < PositionByName(result.branches[j].branch)
       /\ \A field \in SummaryFields :
            result.overallTotals[field] = FieldSum(result.branches, field, n)
       /\ result.overallTotals["totalJobs"] = Cardinality(ActiveJobsOf(d))
       /\ result.overallTotals["totalEarnings"]
            = Hundredths * StoredPriceSum(ActiveJobsOf(d))
       /\ result.overallTotals["cash"] + result.overallTotals["transfer"]
            <= Hundredths * TotalAmountSum(ActiveJobsOf(d))

\* branch_b was deactivated after a job of it was stored: the summary of that day
\* holds branch_a alone and counts the job of branch_a only
C17_Witness ==
  \E d \in Days :
    /\ ~branches["branch_b"].isActive
    /\ JobsOf("branch_b", d) # {}
    /\ JobsOf("branch_a", d) # {}
    /\ Len(getCompanyDailySummaryAllBranches(d).branches) = 1
    /\ getCompanyDailySummaryAllBranches(d).overallTotals["totalJobs"] = 1

\* C18: jobs and line items are immutable once created: every step of every
\* operation keeps each stored job as it is, with its branch, payment method,
\* total amount and date, and with its line items, their number, credited
\* washers, service items and prices.
C18_JobsImmutable ==
  [][\A cw \in carWashes :
       \E kept \in carWashes' :
         /\ kept.id = cw.id
         /\ kept.branchId = cw.branchId
         /\ kept.paymentMethod = cw.paymentMethod
         /\ kept.totalAmount = cw.totalAmount
         /\ kept.washDate = cw.washDate
         /\ kept.washedItems = cw.washedItems
         /\ kept.washers = cw.washers]_vars

\* a Full Wash line sold at 50 is still stored at 50, credited to Sam, after
\* Full Wash was repriced to 70 and a second job was created
C18_Witness ==
  /\ Cardinality(carWashes) = 2
  /\ serviceItems["s3"].price = 70
  /\ adminRes.op = "updateServiceItem"
  /\ \E cw \in carWashes :
       /\ cw.id = 1
       /\ cw.washedItems = << [washerId |-> "w2", serviceItemId |-> "s3", price |-> 50] >>
       /\ cw.totalAmount = 50

\* every row of the table is kept, with counters at least as large
RowsGrow(table, tableAfter) ==
  \A k \in DOMAIN table :
    /\ k \in DOMAIN tableAfter
    /\ tableAfter[k].totalCarsWashed >= table[k].totalCarsWashed
    /\ tableAfter[k].totalItemsWashed >= table[k].totalItemsWashed

\* C19: along every execution, the job counter and the item counter of every
\* per-washer-day row and of every per-branch-day row never decrease, and a row,
\* once created, is never removed.
C19_AggregatesMonotonic ==
  [][/\ RowsGrow(dailySummary, dailySummary')
     /\ RowsGrow(companyDailySummary, companyDailySummary')]_vars

\* two jobs of branch_a on day 1, the first of two lines and the second of one:
\* the rows were created by the first and incremented in place by the second
C19_Witness ==
  /\ Cardinality(carWashes) = 2
  /\ \E cw \in carWashes : cw.id = 1 /\ Len(cw.washedItems) = 2
  /\ \E cw \in carWashes : cw.id = 2 /\ Len(cw.washedItems) = 1
  /\ << "branch_a", 1 >> \in DOMAIN companyDailySummary
  /\ companyDailySummary[<< "branch_a", 1 >>].totalCarsWashed = 2
  /\ companyDailySummary[<< "branch_a", 1 >>].totalItemsWashed = 3
  /\ << "w2", 1, "branch_a" >> \in DOMAIN dailySummary
  /\ dailySummary[<< "w2", 1, "branch_a" >>].totalItemsWashed = 3

\* ids that no row has
NoJobId == MaxJobs + 1

NoWasherId == "w9"

\* what a caller of branch B reads
BranchReads(B) ==
  /\ getCarWashById(B, NoJobId).status = 404
  /\ getWasherById(B, NoWasherId).status = 404
  /\ \A cw \in carWashes :
       IF cw.branchId = B
         THEN getCarWashById(B, cw.id) = Found({cw})
         ELSE getCarWashById(B, cw.id) = getCarWashById(B, NoJobId)
  /\ \A w \in DOMAIN washers :
       IF washers[w].branchId = B
         THEN getWasherById(B, w) = Found({w})
         ELSE /\ getWasherById(B, w) = getWasherById(B, NoWasherId)
              /\ \A d \in Days :
                   /\ getWasherDailySummary(B, w, d)
                        = getWasherDailySummary(B, NoWasherId, d)
                   /\ getWasherDailySummary(B, w, d).status = 404
                   /\ getCarWashRecords(B, d, << w >>)
                        = getCarWashRecords(B, d, << NoWasherId >>)
                   /\ getCarWashRecords(B, d, << w >>).data = {}
  /\ getAllWashers(B) = {w \in DOMAIN washers : washers[w].branchId = B}
  /\ \A d \in Days :
       /\ getCarWashRecords(B, d, << >>).data = JobsOf(B, d)
       /\ \A cw \in getCarWashRecords(B, d, << >>).data :
            \A i \in 1..Len(cw.washedItems) :
              washers[cw.washedItems[i].washerId].branchId = B
       /\ \A k \in getAllWashersDailySummary(B, d) :
            k[3] = B /\ washers[k[1]].branchId = B
       /\ \A w \in getAllWashers(B) :
            getWasherDailySummary(B, w, d).status = 200
            => getWasherDailySummary(B, w, d).data = {<< w, d, B >>}
       /\ getCompanyPaymentSummary(B, d).totalCarsWashed = Cardinality(JobsOf(B, d))
       /\ getCompanyPaymentSummary(B, d).totalItemsWashed
            = Cardinality(washedItemsOfDay(B, d))

\* the rows of a table that a step creates or changes
RowsWritten(table, tableAfter) ==
  {k \in DOMAIN tableAfter : k \notin DOMAIN table \/ tableAfter[k] # table[k]}

\* what a step of a caller's operation writes
BranchWrites ==
  /\ (adminOps' # adminOps
      /\ adminRes'.op \in {"createWasher", "updateWasher", "deleteWasher"})
     => /\ \A w \in DOMAIN washers :
             washers[w].branchId # adminRes'.branchId
             => w \in DOMAIN washers' /\ washers'[w] = washers[w]
        /\ \A w \in DOMAIN washers' \ DOMAIN washers :
             washers'[w].branchId = adminRes'.branchId
  /\ \A r \in Reqs :
       Answered(r) =>
         /\ \A cw \in carWashes' \ carWashes : cw.branchId = reqs'[r].branchId
         /\ \A k \in RowsWritten(dailySummary, dailySummary') :
              k[3] = reqs'[r].branchId
         /\ \A k \in RowsWritten(companyDailySummary, companyDailySummary') :
              k[1] = reqs'[r].branchId

\* C20: branch isolation: for a caller of branch B, a lookup by id of a job, a
\* washer or a washer's summary of another branch is answered not-found exactly
\* as for an id that no row has; the lists and reports hold B's jobs, line items,
\* washers and aggregate rows only; washer creation, update and deactivation
\* leave the washers of other branches as they are, and a job submission writes
\* jobs and aggregate rows of B only.
C20_BranchIsolation ==
  /\ [](\A B \in BranchIds : BranchReads(B))
  /\ [][BranchWrites]_vars

\* a caller of branch_b asked to update the Idowu of branch_a and was answered
\* 404, while a job of branch_a is stored that branch_b cannot look up
C20_Witness ==
  /\ adminRes = [op |-> "updateWasher", status |-> 404, branchId |-> "branch_b"]
  /\ washers["w1"] = InitWashers["w1"]
  /\ \E cw \in carWashes :
       /\ cw.branchId = "branch_a"
       /\ "w1" \in cw.washers
       /\ getCarWashById("branch_b", cw.id).status = 404
       /\ getCarWashById("branch_a", cw.id).status = 200
  /\ << "w1", 1, "branch_a" >> \in DOMAIN dailySummary
  /\ getWasherDailySummary("branch_b", "w1", 1).status = 404


\* ------------------------------------------------------------------------
\* Claims on authentication, the washer directory and reports under load
\* ------------------------------------------------------------------------

\* the token was signed for an existing, active user of an active branch
CallerAdmitted(token) ==
  \E u \in DOMAIN Users :
    /\ token = << u >>
    /\ Users[u].isActive
    /\ branches[Users[u].branchId].isActive

PaymentsPrefix == << "api", "payments" >>

\* C21: a core handler is entered only for a request whose token belongs to
\* an existing active user of an active branch, and then with that user as
\* req.user; every other request is answered 401 before any handler, and the
\* middleware reads and changes no table. This covers the payment routes,
\* whose own router declares no auth middleware.
C21_HandlersBehindProtect ==
  [][httpRes' # httpRes =>
       LET out == httpRes'[1] IN
       /\ out.handler # "" =>
            /\ CallerAdmitted(httpReq.token)
            /\ httpReq.token = << out.user >>
       /\ ~CallerAdmitted(httpReq.token) => out = Unhandled(401)
       /\ UNCHANGED << dirVars, dbVars, branches >>]_vars

\* a payment summary was asked for with a token that does not verify, and
\* the request was refused
C21_Witness ==
  /\ httpRes = << Unhandled(401) >>
  /\ underPrefix(PaymentsPrefix, httpReq.path)
  /\ firstMatch(paymentRoutes, httpReq.method,
                SubSeq(httpReq.path, 3, Len(httpReq.path))) # << >>
  /\ httpReq.token = << "forged" >>


\* C23: the summary of all branches is handed to super admins only: whenever
\* the request reaches getCompanyDailySummaryAllBranches, its caller has the
\* super admin role.
C23_AllBranchesSummarySuperAdminOnly ==
  \A i \in 1 .. Len(httpRes) :
    httpRes[i].handler = "getCompanyDailySummaryAllBranches" =>
      /\ httpRes[i].user \in DOMAIN Users
      /\ Users[httpRes[i].user].role = "super_admin"


\* C22: no two washers of one branch have the same name, in every reachable
\* state, also while createWasher and updateWasher for one name run at once.
C22_WasherNameUniqueInBranch ==
  \A w \in DOMAIN washers, x \in DOMAIN washers :
    (w # x /\ washers[w].branchId = washers[x].branchId) =>
      washers[w].name # washers[x].name


\* the active washers of the branch whose name is 'Idowu' when case is ignored
ActiveIdowus(branchId) ==
  {w \in DOMAIN washers :
     /\ washers[w].branchId = branchId
     /\ washers[w].isActive
     /\ toLowerCase(washers[w].name) = toLowerCase(IdowuLiteral)}

\* C30: a branch has at most one active washer named 'Idowu' up to letter
\* case; createWasher and updateWasher never add a second one.
C30_OneActiveIdowuPerBranch ==
  \A branchId \in BranchIds : Cardinality(ActiveIdowus(branchId)) <= 1


\* a special line of the submission names a washer of which the branch has no
\* active row
HasUnmatchedSpecialLine(branchId, body) ==
  \E i \in 1..Len(body.items) :
    /\ body.items[i].serviceItemName \in SpecialNames
    /\ ~WasherNameResolves(branchId, body.items[i].washerName)

\* C28: a submission with a special line whose washer name has no active
\* washer in the caller's branch is rejected and nothing is persisted, although
\* the name is not used for the credit.
C28_SpecialLineWasherMustResolve ==
  [][\A r \in Reqs :
       (TakenUp(r) /\ HasUnmatchedSpecialLine(reqs'[r].branchId, reqs'[r].body))
       => (/\ reqs'[r].pc = "responded"
           /\ reqs'[r].res.status # 201
           /\ TablesUnchanged)]_vars


\* the branch holds a deactivated washer of this name and no active one
WasherDeactivated(branchId, name) ==
  /\ \E w \in DOMAIN washers :
       /\ washers[w].name = name
       /\ washers[w].branchId = branchId
       /\ ~washers[w].isActive
  /\ ~WasherNameResolves(branchId, name)

ServiceItemDeactivated(name) ==
  /\ \E x \in DOMAIN serviceItems :
       serviceItems[x].name = name /\ ~serviceItems[x].isActive
  /\ ~\E x \in DOMAIN serviceItems :
        serviceItems[x].name = name /\ serviceItems[x].isActive

\* the submission names a deactivated washer or service item, or needs as the
\* branch's Idowu a washer that is deactivated
NamesDeactivated(branchId, body) ==
  \/ \E i \in 1..Len(body.items) :
       \/ WasherDeactivated(branchId, body.items[i].washerName)
       \/ ServiceItemDeactivated(body.items[i].serviceItemName)
  \/ /\ BodyHasSpecialLine(body)
     /\ ~BranchHasActiveIdowu(branchId)
     /\ \E w \in DOMAIN washers : IsIdowuOfBranch(w, branchId)

\* a delete was answered 200 in this step
Deleted ==
  /\ adminOps' # adminOps
  /\ adminRes'.op \in {"deleteWasher", "deleteServiceItem"}
  /\ adminRes'.status = 200

\* C24: deleteWasher and deleteServiceItem only clear the active flag of one
\* row: no row is removed and no job, line item or aggregate changes. While
\* the flag is cleared every submission naming that washer or service item,
\* or needing that washer as the branch's Idowu, is rejected with nothing
\* persisted; once an update has set the flag again such submissions are
\* accepted as any other.
C24_SoftDelete ==
  [][/\ Deleted =>
          /\ TablesUnchanged
          /\ DOMAIN washers' = DOMAIN washers
          /\ DOMAIN serviceItems' = DOMAIN serviceItems
          /\ \A w \in DOMAIN washers :
               washers'[w] \in {washers[w], [washers[w] EXCEPT !.isActive = FALSE]}
          /\ \A x \in DOMAIN serviceItems :
               serviceItems'[x]
                 \in {serviceItems[x], [serviceItems[x] EXCEPT !.isActive = FALSE]}
     /\ \A r \in Reqs :
          (TakenUp(r) /\ NamesDeactivated(reqs'[r].branchId, reqs'[r].body))
          => (/\ reqs'[r].pc = "responded"
              /\ reqs'[r].res.status # 201
              /\ TablesUnchanged)]_vars


\* the washers credited on the line items of the job
CreditedWashers(cw) ==
  {cw.washedItems[i].washerId : i \in 1..Len(cw.washedItems)}

\* the washers of the branch named on some line of the submission
NamedWashers(branchId, body) ==
  {w \in DOMAIN washers :
     /\ washers[w].branchId = branchId
     /\ \E i \in 1..Len(body.items) : body.items[i].washerName = washers[w].name}

\* C26: the washers linked to a job are exactly the distinct washers credited
\* on its line items: the branch's Idowu is linked when a special line was
\* reassigned to them, and a washer named on special lines only is not linked.
C26_LinkedWashersAreCredited ==
  /\ \A cw \in carWashes : cw.washers = CreditedWashers(cw)
  /\ \A r \in Reqs :
       Created(r) =>
         LET cw == JobOf(r)
             body == reqs[r].body
         IN /\ BodyHasSpecialLine(body) =>
                 \E w \in cw.washers : IsIdowuOfBranch(w, cw.branchId)
            /\ \A w \in NamedWashers(cw.branchId, body) :
                 (/\ ~IsIdowuOfBranch(w, cw.branchId)
                  /\ \A i \in 1..Len(body.items) :
                       body.items[i].washerName = washers[w].name
                         => body.items[i].serviceItemName \in SpecialNames)
                 => w \notin cw.washers

\* a job whose only line is an Engine Wash naming Sam: Idowu is linked to it
\* and Sam is not
C26_Witness ==
  /\ Created(1)
  /\ reqs[1].body.items = << Line(SamName, EngineWashName, << >>) >>
  /\ JobOf(1).washers = {"w1"}
  /\ washers["w2"].name = SamName

\* C27: the stored total of every job is the sum of the stored prices of its
\* line items, so that for every branch and day the cash total, the transfer
\* total and the totals of the jobs with no payment method add up to the total
\* sales rebuilt from the line items.
C27_TotalAmountIsSumOfLines ==
  /\ \A cw \in carWashes :
       cw.totalAmount = PriceOfFirst(cw.washedItems, Len(cw.washedItems))
  /\ \A b \in BranchIds, d \in Days :
       LET daily == getCompanyDailySummary(b, d)
           unset == {cw \in JobsOf(b, d) : cw.paymentMethod = << >>}
       IN daily.cash + daily.transfer + Hundredths * TotalAmountSum(unset)
            = daily.totalEarnings

\* a day of branch_a with a rug job paid by transfer at its custom price and a
\* job with no payment method
C27_Witness ==
  \E d \in Days :
    /\ \E cw \in JobsOf("branch_a", d) :
         /\ cw.paymentMethod = transferLiteral
         /\ cw.totalAmount = 1
         /\ serviceItems[cw.washedItems[1].serviceItemId].price = 0
    /\ \E cw \in JobsOf("branch_a", d) : cw.paymentMethod = << >>
    /\ getCompanyDailySummary("branch_a", d).totalEarnings = 5100


\* the jobs of the branch and day of request r's transaction that link the
\* washer, as the transaction sees them
JobsLinking(r, w) ==
  {cw \in visibleCarWashes(r) :
     /\ cw.branchId = reqs[r].branchId
     /\ cw.washDate = reqs[r].today
     /\ w \in cw.washers}

\* C25: inside the transaction, the amount added to the per-washer-day job
\* counter of a credited washer is 1 exactly when the job just created is the
\* only job of that branch and day linking the washer, and 0 otherwise.
C25_IncrementOneForFirstJobOfDay ==
  [][\A r \in Reqs :
       Len(reqs'[r].dailyUpserts) = Len(reqs[r].dailyUpserts) + 1
       => LET write == reqs'[r].dailyUpserts[Len(reqs'[r].dailyUpserts)]
          IN (write.totalCarsWashed = 1)
               <=> (JobsLinking(r, write.key[1]) = {reqs[r].carWash[1]})]_vars


\* the line items of the jobs
ItemsOfJobs(jobs) ==
  UNION {{<< cw.id, i >> : i \in 1..Len(cw.washedItems)} : cw \in jobs}

ReportDone == report # NoReport /\ report[1].pc = "done"

\* C29 as claimed: every company daily summary response is the summary of one
\* set of committed jobs of the branch and day, also when jobs commit while
\* it is computed: the items counted are the line items of the jobs counted.
C29_ReportFromOneState ==
  ReportDone =>
    \E jobs \in SUBSET JobsOf(report[1].branchId, report[1].day) :
      report[1].res[1] = companyDailySummaryOf(jobs, ItemsOfJobs(jobs))

\* C29 as amended: every company daily summary response is built from
\* committed jobs of the branch and day only: the job count and the payment
\* totals from one set of them, the item count and the sales from the line
\* items of a set that contains the first; the two sets differ only by jobs
\* committed between the two queries.
C29_ReportFromTwoCommittedStates ==
  ReportDone =>
    \E later \in SUBSET JobsOf(report[1].branchId, report[1].day) :
      \E jobs \in SUBSET later :
        /\ report[1].res[1] = companyDailySummaryOf(jobs, ItemsOfJobs(later))
        /\ jobs = report[1].carWashRecords

\* a response that counts no job and the two line items of a job committed
\* between the two queries
C29_Witness ==
  /\ ReportDone
  /\ report[1].res[1].totalJobs = 0
  /\ report[1].res[1].totalItemsWashed = 2
  /\ report[1].res[1].totalEarnings = 35000
  /\ report[1].res[1].cash = 0

====
